---- MODULE Spec2Model ----
(***************************************************************************)
(* A model of typet.  Four specifications share the module:                *)
(*   Spec        the validation types (src/typet/validation.py): Bounded,  *)
(*               Length, Valid and String are sliced into synthesized      *)
(*               types, which are then called on values, instance-checked  *)
(*               and rendered;                                             *)
(*   SpecMeta    calls of classes whose metaclass is Singleton,            *)
(*               IdempotentSingleton or Uninstantiable (src/typet/meta.py);*)
(*   SpecRecord  construction of, assignment to and comparison of records  *)
(*               (src/typet/objects.py, with cast and is_instance of       *)
(*               src/typet/typing.py);                                     *)
(*   SpecClass   class statements executed by the metaclass of the records *)
(*               (_AnnotatedObjectMeta.__new__ in src/typet/objects.py).   *)
(*                                                                         *)
(* Python values are records [t, n, s]: t is the type name, n the numeric  *)
(* payload (int, bool) and s the text payload (str).  The result of        *)
(* evaluating a Python expression is an outcome [kind, val, msg]: kind is  *)
(* "ok" (val is the value) or the name of the exception raised (msg is its *)
(* message).  An optional bound is a set: {} is None, {n} is the number n. *)
(***************************************************************************)
EXTENDS Integers, Sequences, FiniteSets, TLC

(* ---------------------------- bounds ---------------------------------- *)
MaxInt == 3
MaxBound == 2
MaxStrLen == 3

(* ------------------------- Python values ------------------------------ *)
IntV(n) == [t |-> "int", n |-> n, s |-> ""]
StrV(s) == [t |-> "str", n |-> 0, s |-> s]
BoolV(b) == [t |-> "bool", n |-> IF b THEN 1 ELSE 0, s |-> ""]
NoneV == [t |-> "NoneType", n |-> 0, s |-> ""]

RECURSIVE Rep(_)
Rep(k) == IF k = 0 THEN "" ELSE "a" \o Rep(k - 1)

Strs == {Rep(k) : k \in 0..MaxStrLen} \cup {"2"}
Values == {IntV(n) : n \in -1..MaxInt} \cup {StrV(s) : s \in Strs} \cup {NoneV}

Ok(v) == [kind |-> "ok", val |-> v, msg |-> ""]
Raise(kind, msg) == [kind |-> kind, val |-> NoneV, msg |-> msg]

Val(b) == CHOOSE n \in b : TRUE

(* bool(v) *)
Truthy(v) ==
    CASE v.t = "int" -> v.n # 0
      [] v.t = "bool" -> v.n # 0
      [] v.t = "str" -> v.s # ""
      [] OTHER -> FALSE

(* str(v) *)
StrOf(v) ==
    CASE v.t = "int" -> ToString(v.n)
      [] v.t = "bool" -> (IF v.n = 1 THEN "True" ELSE "False")
      [] v.t = "str" -> v.s
      [] OTHER -> "None"

(* repr(v) *)
Repr(v) == IF v.t = "str" THEN "'" \o v.s \o "'" ELSE StrOf(v)

DigitStrs == {ToString(d) : d \in 0..9}
DigitOf(s) == CHOOSE d \in 0..9 : ToString(d) = s

(* type_(v) for the types of the model: int(v), str(v), Any(v), object(v) *)
CallType(type_, v) ==
    CASE type_ = "int" ->
            (CASE v.t \in {"int", "bool"} -> Ok(IntV(v.n))
               [] v.t = "str" ->
                    IF v.s \in DigitStrs
                    THEN Ok(IntV(DigitOf(v.s)))
                    ELSE Raise("ValueError",
                               "invalid literal for int() with base 10: " \o Repr(v))
               [] OTHER ->
                    Raise("TypeError",
                          "int() argument must be a string, a bytes-like object or a real number, not '"
                              \o v.t \o "'"))
      [] type_ = "str" -> Ok(StrV(StrOf(v)))
      [] type_ = "Any" -> Raise("TypeError", "Any cannot be instantiated")
      [] OTHER -> Raise("TypeError", "object() takes no arguments")

(* isinstance(v, type_) for a plain type *)
IsInstancePlain(v, type_) ==
    CASE type_ = "int" -> Ok(BoolV(v.t \in {"int", "bool"}))
      [] type_ = "str" -> Ok(BoolV(v.t = "str"))
      [] type_ = "Any" -> Raise("TypeError", "typing.Any cannot be used with isinstance()")
      [] OTHER -> Ok(BoolV(TRUE))

(* cmp_val < n and cmp_val > n for a number n *)
Less(c, n) ==
    IF c.t \in {"int", "bool"}
    THEN Ok(BoolV(c.n < n))
    ELSE Raise("TypeError", "'<' not supported between instances of '" \o c.t \o "' and 'int'")

Greater(c, n) ==
    IF c.t \in {"int", "bool"}
    THEN Ok(BoolV(c.n > n))
    ELSE Raise("TypeError", "'>' not supported between instances of '" \o c.t \o "' and 'int'")

(* ------------------------- key functions ------------------------------ *)
(* "identity" is _BoundedMeta._identity; len and str are builtins; neg is *)
(* operator.neg.                                                          *)
KeyFuncs == {"identity", "len", "neg", "str"}

identity(obj) == Ok(obj)

ApplyKey(keyfunc, v) ==
    CASE keyfunc = "identity" -> identity(v)
      [] keyfunc = "len" ->
            IF v.t = "str"
            THEN Ok(IntV(Len(v.s)))
            ELSE Raise("TypeError", "object of type '" \o v.t \o "' has no len()")
      [] keyfunc = "neg" ->
            IF v.t \in {"int", "bool"}
            THEN Ok(IntV(0 - v.n))
            ELSE Raise("TypeError", "bad operand type for unary -: '" \o v.t \o "'")
      [] OTHER -> CallType("str", v)

ModuleOf(name) ==
    CASE name = "identity" -> "typet.validation"
      [] name = "neg" -> "_operator"
      [] name = "Any" -> "typing"
      [] OTHER -> "builtins"

NameOf(name) == IF name = "identity" THEN "_identity" ELSE name

_get_fullname(obj) ==
    IF ModuleOf(obj) \in {"builtins", "__builtin__"}
    THEN NameOf(obj)
    ELSE ModuleOf(obj) \o "." \o NameOf(obj)

(* ----------------------- subscript arguments --------------------------- *)
(* What is written between the brackets of Bounded[...]: one bare item,   *)
(* or a tuple of items.  An item is a type, a string naming a type, a     *)
(* slice lo:hi, a number (held in hi), None, or a function.               *)
TypeItem(name) == [k |-> "type", name |-> name, lo |-> {}, hi |-> {}]
StrItem(name) == [k |-> "str", name |-> name, lo |-> {}, hi |-> {}]
SliceItem(lo, hi) == [k |-> "slice", name |-> "", lo |-> lo, hi |-> hi]
IntItem(n) == [k |-> "int", name |-> "", lo |-> {}, hi |-> {n}]
NoneItem == [k |-> "None", name |-> "", lo |-> {}, hi |-> {}]
FuncItem(name) == [k |-> "func", name |-> name, lo |-> {}, hi |-> {}]

Bare(item) == [tuple |-> FALSE, items |-> <<item>>]
Tuple(items) == [tuple |-> TRUE, items |-> items]

(* slice(bound) for a bound that is not a slice: slice(None, bound, None) *)
slice(bound) == [start |-> {}, stop |-> bound.hi]

(* eval_type: a type evaluates to itself, a string is a forward reference *)
(* evaluated against the builtins.                                        *)
eval_type(type_) ==
    IF type_.k = "str" /\ type_.name \notin {"int", "str"}
    THEN Raise("NameError", "name '" \o type_.name \o "' is not defined")
    ELSE Ok(StrV(type_.name))

GotArgs(type_, bound, keyfunc) ==
    [kind |-> "ok", msg |-> "", type_ |-> type_, bound |-> bound, keyfunc |-> keyfunc]
ArgsError(kind, msg) ==
    [kind |-> kind, msg |-> msg, type_ |-> "", bound |-> slice(NoneItem), keyfunc |-> ""]

(* _BoundedMeta._get_args *)
BoundedGetArgs(name, args) ==
    IF ~args.tuple
    THEN ArgsError("TypeError", name \o "[...] takes two or three arguments.")
    ELSE IF Len(args.items) \notin {2, 3}
    THEN ArgsError("TypeError", "Too many parameters given to " \o name \o "[...]")
    ELSE LET type_ == args.items[1]
             bound == args.items[2]
             keyfunc == IF Len(args.items) = 2 THEN "identity" ELSE args.items[3].name
             b == IF bound.k = "slice" THEN [start |-> bound.lo, stop |-> bound.hi]
                  ELSE slice(bound)
             t == eval_type(type_)
         IN  IF t.kind # "ok" THEN ArgsError(t.kind, t.msg)
             ELSE GotArgs(t.val.s, b, keyfunc)

(* A Length that lets a third argument through to _BoundedMeta._get_args *)
LengthGetArgsLax(name, args) ==
    IF ~args.tuple \/ Len(args.items) \notin {2, 3}
    THEN ArgsError("TypeError", name \o "[...] takes exactly two arguments.")
    ELSE IF Len(args.items) = 3 THEN BoundedGetArgs(name, args)
    ELSE BoundedGetArgs(name, Tuple(args.items \o <<FuncItem("len")>>))

(* _LengthBoundedMeta._get_args *)
LengthGetArgs(name, args) ==
    IF ~args.tuple \/ ~(Len(args.items) = 2)
    THEN ArgsError("TypeError", name \o "[...] takes exactly two arguments.")
    ELSE BoundedGetArgs(name, Tuple(args.items \o <<FuncItem("len")>>))

(* _ValidationBoundedMeta._get_args *)
ValidGetArgs(name, args) ==
    IF args.tuple
    THEN IF ~(Len(args.items) = 2)
         THEN ArgsError("TypeError", name \o "[...] takes one or two argument.")
         ELSE BoundedGetArgs(name, Tuple(<<args.items[1], NoneItem, args.items[2]>>))
    ELSE BoundedGetArgs(name, Tuple(<<TypeItem("Any"), NoneItem, args.items[1]>>))

(* _StringMeta._get_args *)
StringGetArgs(name, args) ==
    IF args.tuple
    THEN ArgsError("TypeError", name \o "[...] takes exactly one argument.")
    ELSE LengthGetArgs(name, Tuple(<<TypeItem("str"), args.items[1]>>))

Specializations == {"Bounded", "Length", "Valid", "String"}

(* cls._get_args, by the metaclass of cls *)
GetArgs(name, args) ==
    CASE name = "Bounded" -> BoundedGetArgs(name, args)
      [] name = "Length" -> LengthGetArgs(name, args)
      [] name = "Valid" -> ValidGetArgs(name, args)
      [] OTHER -> StringGetArgs(name, args)

(* cls._default *)
DefaultKey(name) == IF name \in {"Length", "String"} THEN "len" ELSE "identity"

(* ----------------------------- naming --------------------------------- *)
Module == "typet.validation"

(* _BoundedMeta._get_bound_repr: "{}:{}".format(start or "", stop or "") *)
OrBlank(b) == IF b = {} \/ Val(b) = 0 THEN "" ELSE ToString(Val(b))

_get_bound_repr(bound) == OrBlank(bound.start) \o ":" \o OrBlank(bound.stop)

(* _BoundedMeta._get_class_repr *)
BoundedClassRepr(name, type_, bound, keyfunc, keyfunc_name) ==
    IF keyfunc # DefaultKey(name)
    THEN Module \o "." \o name \o "[" \o _get_fullname(type_) \o ", "
             \o _get_bound_repr(bound) \o ", " \o keyfunc_name \o "]"
    ELSE Module \o "." \o name \o "[" \o _get_fullname(type_) \o ", "
             \o _get_bound_repr(bound) \o "]"

(* _ValidationBoundedMeta._get_class_repr *)
ValidClassRepr(name, type_, bound, keyfunc, keyfunc_name) ==
    IF type_ # "Any"
    THEN Module \o "." \o name \o "[" \o _get_fullname(type_) \o ", " \o keyfunc_name \o "]"
    ELSE Module \o "." \o name \o "[" \o keyfunc_name \o "]"

(* _StringMeta._get_class_repr *)
StringClassRepr(name, type_, bound, keyfunc, keyfunc_name) ==
    Module \o "." \o name \o "[" \o _get_bound_repr(bound) \o "]"

(* cls._get_class_repr, by the metaclass of cls *)
GetClassRepr(name, type_, bound, keyfunc, keyfunc_name) ==
    CASE name = "Valid" -> ValidClassRepr(name, type_, bound, keyfunc, keyfunc_name)
      [] name = "String" -> StringClassRepr(name, type_, bound, keyfunc, keyfunc_name)
      [] OTHER -> BoundedClassRepr(name, type_, bound, keyfunc, keyfunc_name)

(* ------------------------- synthesized types -------------------------- *)
(* A synthesized type (_BoundedSubclass) is the closure of __getitem__:   *)
(* the specialization it was sliced from, type_, bound, keyfunc, and the  *)
(* cached __class_repr__.  NoType stands for "no type synthesized yet".   *)
NoType ==
    [spec |-> "none", type_ |-> "", start |-> {}, stop |-> {}, keyfunc |-> "",
     class_repr |-> ""]

(* _BoundedMeta.__getitem__, after _get_args succeeded with g *)
Subclass(name, g) ==
    [spec |-> name, type_ |-> g.type_, start |-> g.bound.start, stop |-> g.bound.stop,
     keyfunc |-> g.keyfunc,
     class_repr |-> GetClassRepr(name, g.type_, g.bound, g.keyfunc, _get_fullname(g.keyfunc))]

(* _BoundedMeta._get_bases: the base class is type_ when it can be        *)
(* subclassed and object otherwise (typing.Any).                          *)
_get_bases(type_) == IF type_ = "Any" THEN "object" ELSE type_

(* An _instantiate that never coerces: it hands the raw value back *)
InstantiateRaw(class_, type_, value) == Ok(value)

(* _BoundedMeta._instantiate *)
_instantiate(class_, type_, value) ==
    LET first == CallType(class_, value)
    IN  IF first.kind # "TypeError"
        THEN first
        ELSE LET second == CallType(type_, value)
             IN  IF second.kind = "ok" THEN second ELSE Ok(value)

(* A lower bound that is exclusive: cmp_val <= bound.start *)
BelowStartOrEqual(S, cmp_val) ==
    IF S.start = {} THEN Ok(BoolV(FALSE)) ELSE Less(cmp_val, Val(S.start) + 1)

(* bound.start is not None and cmp_val < bound.start *)
BelowStart(S, cmp_val) ==
    IF S.start = {} THEN Ok(BoolV(FALSE)) ELSE Less(cmp_val, Val(S.start))

(* An upper bound that lets one more through: cmp_val > bound.stop + 1 *)
AboveStopPlusOne(S, cmp_val) ==
    IF S.stop = {} THEN Ok(BoolV(FALSE)) ELSE Greater(cmp_val, Val(S.stop) + 1)

(* bound.stop is not None and cmp_val > bound.stop *)
AboveStop(S, cmp_val) ==
    IF S.stop = {} THEN Ok(BoolV(FALSE)) ELSE Greater(cmp_val, Val(S.stop))

(* the two messages of a value below the minimum *)
BelowMessage(S, value, cmp_val) ==
    IF S.keyfunc # "identity"
    THEN "The value of " \o _get_fullname(S.keyfunc) \o "(" \o Repr(value) \o ") ["
             \o Repr(cmp_val) \o "] is below the minimum allowed value of "
             \o ToString(Val(S.start)) \o "."
    ELSE "The value " \o Repr(value) \o " is below the minimum allowed value of "
             \o ToString(Val(S.start)) \o "."

(* An above-the-maximum message that never names the key function *)
AboveMessagePlain(S, value, cmp_val) ==
    "The value " \o Repr(value) \o " is above the maximum allowed value of "
        \o ToString(Val(S.stop)) \o "."

(* the two messages of a value above the maximum *)
AboveMessage(S, value, cmp_val) ==
    IF S.keyfunc # "identity"
    THEN "The value of " \o _get_fullname(S.keyfunc) \o "(" \o Repr(value) \o ") ["
             \o Repr(cmp_val) \o "] is above the maximum allowed value of "
             \o ToString(Val(S.stop)) \o "."
    ELSE "The value " \o Repr(value) \o " is above the maximum allowed value of "
             \o ToString(Val(S.stop)) \o "."

(* the message of a failed predicate *)
FalseMessage(S, instance) ==
    _get_fullname(S.keyfunc) \o "(" \o Repr(instance) \o ") is False"

(* A predicate mode that never rejects *)
PredicateNeverFails(cmp_val) == FALSE

(* elif not cmp_val *)
PredicateFails(cmp_val) == ~Truthy(cmp_val)

(* Checks that take the predicate for a type without a lower bound *)
CheckBoundStartOnly(S, value, instance, cmp_val) ==
    IF S.start # {}
    THEN LET below == BelowStart(S, cmp_val)
         IN  IF below.kind # "ok" THEN below
             ELSE IF Truthy(below.val)
             THEN Raise("ValueError", BelowMessage(S, value, cmp_val))
             ELSE LET above == AboveStop(S, cmp_val)
                  IN  IF above.kind # "ok" THEN above
                      ELSE IF Truthy(above.val)
                      THEN Raise("ValueError", AboveMessage(S, value, cmp_val))
                      ELSE Ok(instance)
    ELSE IF PredicateFails(cmp_val)
    THEN Raise("ValueError", FalseMessage(S, instance))
    ELSE Ok(instance)

(* the bound and predicate checks of __new__, from cmp_val on *)
CheckBound(S, value, instance, cmp_val) ==
    IF S.start # {} \/ S.stop # {}
    THEN LET below == BelowStart(S, cmp_val)
         IN  IF below.kind # "ok" THEN below
             ELSE IF Truthy(below.val)
             THEN Raise("ValueError", BelowMessage(S, value, cmp_val))
             ELSE LET above == AboveStop(S, cmp_val)
                  IN  IF above.kind # "ok" THEN above
                      ELSE IF Truthy(above.val)
                      THEN Raise("ValueError", AboveMessage(S, value, cmp_val))
                      ELSE Ok(instance)
    ELSE IF PredicateFails(cmp_val)
    THEN Raise("ValueError", FalseMessage(S, instance))
    ELSE Ok(instance)

(* _BoundedSubclass.__new__, from the instance on: the key, then the checks *)
CheckInstance(S, value, instance) ==
    LET cmp_val == ApplyKey(S.keyfunc, instance)
    IN  IF cmp_val.kind # "ok" THEN cmp_val
        ELSE CheckBound(S, value, instance, cmp_val.val)

(* _BoundedSubclass.__new__ *)
New(S, value) ==
    LET instance == _instantiate(_get_bases(S.type_), S.type_, value)
    IN  IF instance.kind # "ok" THEN instance
        ELSE CheckInstance(S, value, instance.val)

(* _ValidationMeta.__instancecheck__:                                     *)
(* bool(isinstance(other, cls.__type__) and cls(other)), ValueError -> False *)
InstanceCheck(S, other) ==
    LET plain == IsInstancePlain(other, S.type_)
    IN  IF plain.kind # "ok" THEN plain
        ELSE IF ~Truthy(plain.val) THEN Ok(BoolV(FALSE))
        ELSE LET made == New(S, other)
             IN  CASE made.kind = "ok" -> Ok(BoolV(Truthy(made.val)))
                   [] made.kind = "ValueError" -> Ok(BoolV(FALSE))
                   [] OTHER -> made

(* _ValidationMeta.__repr__ *)
ClassReprOf(S) ==
    IF S.class_repr # ""
    THEN Ok(StrV(S.class_repr))
    ELSE Ok(StrV("<class '" \o Module \o "._BoundedSubclass'>"))

(* --------------------------- the inputs ------------------------------- *)
TypeNames == {"int", "str", "Any"}
OptBounds == {{}} \cup {{n} : n \in 0..MaxBound}
Slices == {SliceItem(lo, hi) : lo \in OptBounds, hi \in OptBounds}
FullSlice == SliceItem({0}, {MaxBound})

(* Subscripts of a wrong arity, for any specialization *)
WrongArity ==
    {Tuple(<<>>),
     Tuple(<<TypeItem("int")>>),
     Tuple(<<TypeItem("int"), FullSlice, FuncItem("len"), NoneItem>>)}

BoundedInputs ==
    {Tuple(<<TypeItem(t), b>>) : t \in TypeNames, b \in Slices}
        \cup {Tuple(<<TypeItem(t), b, FuncItem(f)>>) : t \in TypeNames, b \in Slices, f \in KeyFuncs}
        \cup {Tuple(<<StrItem("int"), IntItem(MaxBound)>>),
              Tuple(<<StrItem("int"), SliceItem({1}, {})>>),
              Tuple(<<StrItem("nosuch"), FullSlice>>),
              Tuple(<<TypeItem("int"), NoneItem>>),
              Bare(TypeItem("int"))}
        \cup WrongArity

LengthInputs ==
    {Tuple(<<TypeItem(t), b>>) : t \in TypeNames, b \in Slices}
        \cup {Tuple(<<StrItem("str"), IntItem(MaxBound)>>),
              Tuple(<<StrItem("nosuch"), FullSlice>>),
              Tuple(<<TypeItem("str"), FullSlice, FuncItem("identity")>>),
              Bare(TypeItem("str"))}
        \cup WrongArity

ValidInputs ==
    {Bare(FuncItem(f)) : f \in KeyFuncs}
        \cup {Tuple(<<TypeItem(t), FuncItem(f)>>) : t \in TypeNames, f \in KeyFuncs}
        \cup {Tuple(<<StrItem("int"), FuncItem("str")>>),
              Tuple(<<StrItem("nosuch"), FuncItem("str")>>),
              Tuple(<<TypeItem("int"), TypeItem("int"), TypeItem("int")>>)}
        \cup WrongArity

StringInputs ==
    {Bare(b) : b \in Slices}
        \cup {Bare(IntItem(MaxBound)),
              Tuple(<<FullSlice, FuncItem("identity")>>)}
        \cup WrongArity

Inputs(name) ==
    CASE name = "Bounded" -> BoundedInputs
      [] name = "Length" -> LengthInputs
      [] name = "Valid" -> ValidInputs
      [] OTHER -> StringInputs

(* ------------------- metaclasses (src/typet/meta.py) ------------------ *)
MaxObjects == 2
MaxInits == 2

(* Classes that can be called: four with metaclass Singleton (Child       *)
(* derives from Plain; instances of Registry are falsy, as those of any    *)
(* class whose __len__ returns 0, and so are those of SubRegistry, which   *)
(* derives from Registry), two with metaclass IdempotentSingleton          *)
(* (instances of Cache are falsy), one with metaclass Uninstantiable and   *)
(* the four unsliced validation types.                                     *)
SingletonClasses == {"Plain", "Child", "Registry", "SubRegistry"}

IdempotentClasses == {"Config", "Cache"}

UninstantiableClasses == {"TestClass", "Bounded", "Length", "Valid"}

InstanceClasses == SingletonClasses \cup IdempotentClasses

ParentOf(c) ==
    CASE c = "Child" -> "Plain"
      [] c = "SubRegistry" -> "Registry"
      [] OTHER -> "object"

FalsyInstances(c) == c \in {"Registry", "SubRegistry", "Cache"}

(* The argument lists of a call: positionals and the names of keywords.    *)
CallArgs ==
    [pos : {<<>>, <<IntV(1)>>, <<IntV(1), IntV(2)>>}, kw : {{}, {"value"}}]

NoObject == 0

MOk(id) == [kind |-> "ok", id |-> id, val |-> NoneV, msg |-> ""]

MRaise(kind, msg) == [kind |-> kind, id |-> NoObject, val |-> NoneV, msg |-> msg]

MDone(st, out) == [heap |-> st.heap, instance |-> st.instance, out |-> out]

(* Config defines __init__(self, value=None); the other classes inherit    *)
(* object.__init__, which takes no arguments.                              *)
InitAccepts(c, a) ==
    IF c = "Config"
    THEN Len(a.pos) + Cardinality(a.kw) <= 1
    ELSE a.pos = <<>> /\ a.kw = {}

(* cls.__instance__: the class's own attribute, else the one inherited     *)
(* from its base, else Singleton.__instance__, which is None.              *)
LookupInstance(c, st) ==
    IF st.instance[c] # NoObject THEN st.instance[c]
    ELSE IF ParentOf(c) \in InstanceClasses THEN st.instance[ParentOf(c)]
    ELSE NoObject

(* bool(obj) of None or of an instance. *)
ObjTruthy(id, st) == id # NoObject /\ ~FalsyInstances(st.heap[id].cls)

(* type.__call__(cls, *args, **kwargs): a new object whose __init__ ran.   *)
TypeCall(c, a, st) ==
    IF InitAccepts(c, a)
    THEN [heap |-> Append(st.heap, [cls |-> c, inits |-> 1, args |-> a]),
          instance |-> st.instance,
          out |-> MOk(Len(st.heap) + 1)]
    ELSE MDone(st, MRaise("TypeError", c \o "() takes no arguments"))

SetInstance(c, r) ==
    IF r.out.kind = "ok"
    THEN [r EXCEPT !.instance = [r.instance EXCEPT ![c] = r.out.id]]
    ELSE r

(* Singleton.__call__: none of the classes defines __singleton__, so the   *)
(* attempt to call it raises AttributeError, which is passed over.         *)
SingletonCall(c, a, st) ==
    IF ~ObjTruthy(LookupInstance(c, st), st)
    THEN SetInstance(c, TypeCall(c, a, st))
    ELSE MDone(st, MOk(LookupInstance(c, st)))

ReInit(c, a, st) ==
    LET cur == LookupInstance(c, st)
    IN  IF InitAccepts(st.heap[cur].cls, a)
        THEN [heap |-> [st.heap EXCEPT ![cur] =
                            [@ EXCEPT !.inits = @ + 1, !.args = a]],
              instance |-> st.instance,
              out |-> MOk(cur)]
        ELSE MDone(st, MOk(cur))

(* IdempotentSingleton.__call__: a TypeError of the re-run __init__ (the   *)
(* arguments do not fit) is passed over.                                   *)
IdempotentCall(c, a, st) ==
    IF ~ObjTruthy(LookupInstance(c, st), st)
    THEN SetInstance(c, SingletonCall(c, a, st))
    ELSE ReInit(c, a, st)

UninstantiableCallNoArgs(c, a, st) ==
    IF a.pos = <<>> /\ a.kw = {}
    THEN [heap |-> Append(st.heap, [cls |-> c, inits |-> 1, args |-> a]),
          instance |-> st.instance,
          out |-> MOk(Len(st.heap) + 1)]
    ELSE MDone(st, MRaise("TypeError", "Type " \o c \o " cannot be instantiated."))

(* Uninstantiable.__call__ *)
UninstantiableCall(c, a, st) ==
    MDone(st, MRaise("TypeError", "Type " \o c \o " cannot be instantiated."))

(* _StringMeta.__call__: str(args) *)
StringCall(a, st) ==
    IF a.kw # {}
    THEN MDone(st, MRaise("TypeError",
                          "'value' is an invalid keyword argument for str()"))
    ELSE IF Len(a.pos) = 0
    THEN MDone(st, [MOk(NoObject) EXCEPT !.val = StrV("")])
    ELSE IF Len(a.pos) = 1
    THEN MDone(st, [MOk(NoObject) EXCEPT !.val = CallType("str", a.pos[1]).val])
    ELSE MDone(st, MRaise("TypeError", "decoding to str: need a bytes-like object, int found"))

(* --------------------- records (src/typet/objects.py) ----------------- *)
(* A declared type is a plain type or Optional of one.                     *)
PlainType(name) == [name |-> name, opt |-> FALSE]

OptionalType(type_) == [name |-> type_.name, opt |-> TRUE]

(* attr: type_  (no value in the class body) *)
Declared(attr, type_) ==
    [attr |-> attr, type |-> type_, has |-> FALSE, default |-> NoneV]

(* attr: type_ = value,  or  attr = value  # type: type_ *)
Assigned(attr, type_, value) ==
    [attr |-> attr, type |-> type_, has |-> TRUE, default |-> value]

(* A class statement: its name, whether its metaclass is the strict one,   *)
(* whether its hints are read from comments, and its annotated public,     *)
(* non-constant attributes in the order of the class body.                 *)
ClassDef(name, strict, comment, fields) ==
    [name |-> name, strict |-> strict, comment |-> comment, fields |-> fields]

RecordClasses == {
    ClassDef("Point", TRUE, FALSE,
             <<Declared("x", PlainType("int")), Declared("y", PlainType("int"))>>),
    ClassDef("Vector", FALSE, FALSE,
             <<Declared("x", PlainType("int")), Declared("y", PlainType("int"))>>),
    ClassDef("Triple", TRUE, FALSE,
             <<Declared("a", PlainType("int")), Declared("b", PlainType("str")),
               Declared("c", PlainType("str"))>>),
    ClassDef("XStrict", TRUE, TRUE,
             <<Assigned("x", PlainType("str"), NoneV)>>),
    ClassDef("XOptional", FALSE, TRUE,
             <<Assigned("x", OptionalType(PlainType("str")), NoneV)>>),
    ClassDef("XDefault", FALSE, TRUE,
             <<Assigned("x", OptionalType(PlainType("int")), IntV(5))>>),
    ClassDef("XComment", FALSE, TRUE,
             <<Assigned("x", PlainType("str"), NoneV)>>),
    ClassDef("XNative", FALSE, FALSE,
             <<Assigned("x", PlainType("str"), NoneV)>>),
    ClassDef("XUnassigned", FALSE, FALSE,
             <<Declared("x", OptionalType(PlainType("int")))>>),
    ClassDef("XNullable", FALSE, FALSE,
             <<Assigned("x", PlainType("int"), NoneV)>>),
    ClassDef("XStrictNullable", TRUE, FALSE,
             <<Assigned("x", PlainType("int"), NoneV)>>),
    ClassDef("Point3", TRUE, FALSE,
             <<Declared("z", PlainType("int"))>>) }

ClassNamed(name) == CHOOSE cd \in RecordClasses : cd.name = name

RecordNames == {cd.name : cd \in RecordClasses}

(* bases: Point3 is written class Point3(Point); the other classes derive  *)
(* from Object or StrictObject only.                                       *)
BaseOf(name) == IF name = "Point3" THEN "Point" ELSE "object"

(* The values assigned to fields, and those passed to constructors. *)
RecValues == {IntV(0), IntV(1), StrV("a"), StrV("2"), NoneV}

CtorValues == {IntV(1), StrV("a")}

(* _tp__typed_properties: the names, in the order of the annotations *)
Properties(cd) == [i \in 1..Len(cd.fields) |-> cd.fields[i].attr]

Names(seq) == {seq[i] : i \in 1..Len(seq)}

FieldOf(cd, attr) == CHOOSE f \in Names(cd.fields) : f.attr = attr

(* The properties a class finds on its bases, nearest base last. *)
RECURSIVE InheritedProperties(_)
InheritedProperties(name) ==
    IF BaseOf(name) \notin RecordNames THEN <<>>
    ELSE InheritedProperties(BaseOf(name)) \o Properties(ClassNamed(BaseOf(name)))

(* The class whose body made the property that name.attr finds. *)
RECURSIVE Owner(_, _)
Owner(name, attr) ==
    IF attr \in Names(Properties(ClassNamed(name))) THEN ClassNamed(name)
    ELSE Owner(BaseOf(name), attr)

(* The type of a property taken as it is written *)
PropertyTypeAsWritten(cd, attr) == FieldOf(cd, attr).type

(* type_ of a property: Optional[annotation] when a native annotation has  *)
(* the class-level value None, else the annotation.                        *)
PropertyType(cd, attr) ==
    LET f == FieldOf(cd, attr)
    IN  IF ~cd.comment /\ f.has /\ f.default = NoneV
        THEN OptionalType(f.type)
        ELSE f.type

(* The condition of _tp__undefined_typed_properties. *)
IsRequired(cd, f) ==
    \/ ~f.has
    \/ f.default = NoneV /\ cd.comment /\ f.type.opt

(* _tp__undefined_typed_properties *)
Required(cd) ==
    LET req == SelectSeq(cd.fields, LAMBDA f : IsRequired(cd, f))
    IN  [i \in 1..Len(req) |-> req[i].attr]

(* _get_type_name(type_) *)
_get_type_name(type_) ==
    IF type_.opt THEN "Optional[" \o type_.name \o "]" ELSE type_.name

(* repr(tp) *)
TypeRepr(type_) ==
    IF type_.opt THEN "typing.Optional[" \o type_.name \o "]"
    ELSE "<class '" \o type_.name \o "'>"

(* is_instance(obj, type_) *)
is_instance(obj, type_) ==
    \/ IsInstancePlain(obj, type_.name).val = BoolV(TRUE)
    \/ type_.opt /\ obj = NoneV

CastAlways(type_, obj) ==
    IF CallType(type_.name, obj).kind = "ok"
    THEN Ok(CallType(type_.name, obj).val)
    ELSE Raise("TypeError",
               "Cannot convert " \o Repr(obj) \o " to " \o TypeRepr(type_) \o ".")

(* cast(tp, obj): obj itself when it is an instance; else the first of the *)
(* cast types (the type, then for Optional also NoneType and Union, whose  *)
(* calls with an argument always fail) that converts it.                   *)
cast(tp, obj) ==
    IF is_instance(obj, tp) THEN Ok(obj)
    ELSE IF CallType(tp.name, obj).kind = "ok"
    THEN Ok(CallType(tp.name, obj).val)
    ELSE Raise("TypeError",
               "Cannot convert " \o Repr(obj) \o " to " \o TypeRepr(tp) \o ".")

(* The state: the validation type in use and the last operation on it;    *)
(* the objects made by the classes with a metaclass; the record in use,    *)
(* the last operation on it and the '__attr' attributes of the record      *)
(* classes; the class statement last executed and the class it made.       *)
VARIABLES cls, last, heap, instance, returned, mlast, rec, rlast, classvals, klass

(* typed_attrs[private_attr] = attrs[attr]: the class attributes '__attr'  *)
(* a class statement leaves, {v} for a field whose body gives the value v. *)
ClassBody(cd) ==
    [a \in Names(Properties(cd)) |->
        IF FieldOf(cd, a).has THEN {FieldOf(cd, a).default} ELSE {}]

(* An instance: its class and its instance attributes '__attr' ({} when    *)
(* the instance has none, {v} when it holds v).                            *)
NoRecord == [cls |-> "none", vals |-> <<>>]

Fresh(cd) ==
    [cls |-> cd.name,
     vals |-> [a \in Names(Properties(cd)) \cup Names(InheritedProperties(cd.name)) |-> {}]]

Stored(inst, attr, value) ==
    [inst EXCEPT !.vals = [inst.vals EXCEPT ![attr] = {value}]]

ROut(out, inst) == [out |-> out, inst |-> inst]

(* _fget: getattr(self, private_attr) is the instance attribute, else the  *)
(* attribute of the class, else AttributeError.                            *)
FGet(inst, attr) ==
    LET cd == Owner(inst.cls, attr)
    IN  IF inst.vals[attr] # {} THEN Ok(Val(inst.vals[attr]))
        ELSE IF classvals[cd.name][attr] # {} THEN Ok(Val(classvals[cd.name][attr]))
        ELSE Raise("AttributeError",
                   "'" \o _get_type_name(PropertyType(cd, attr))
                       \o "' object has no attribute '" \o attr \o "'")

(* A setter that stores on the class of the instance as well *)
ClassSharesSetattr(before, after) ==
    [c \in DOMAIN classvals |->
        [a \in DOMAIN classvals[c] |->
            IF a \in DOMAIN after.vals /\ c = Owner(after.cls, a).name
                /\ after.vals[a] # before.vals[a]
            THEN after.vals[a]
            ELSE classvals[c][a]]]

(* setattr(self, private_attr, value) writes the instance: the attributes  *)
(* of the class are those it had.                                          *)
ClassAfterSetattr(before, after) == classvals

StrictFSetUnchecked(inst, attr, value) == ROut(Ok(NoneV), Stored(inst, attr, value))

(* _strict_object_meta_fset._fset *)
StrictFSet(inst, attr, value) ==
    LET type_ == PropertyType(Owner(inst.cls, attr), attr)
    IN  IF ~is_instance(value, type_)
        THEN ROut(Raise("TypeError",
                        "Cannot assign value of type " \o value.t
                            \o " to attribute of type " \o _get_type_name(type_) \o "."),
                  inst)
        ELSE ROut(Ok(NoneV), Stored(inst, attr, value))

(* _object_meta_fset._fset *)
CoercingFSet(inst, attr, value) ==
    LET c == cast(PropertyType(Owner(inst.cls, attr), attr), value)
    IN  IF c.kind = "ok"
        THEN ROut(Ok(NoneV), Stored(inst, attr, c.val))
        ELSE ROut(c, inst)

(* setattr(self, attr, value) through the property of the class *)
FSet(inst, attr, value) ==
    IF ClassNamed(inst.cls).strict
    THEN StrictFSet(inst, attr, value)
    ELSE CoercingFSet(inst, attr, value)

(* A keyword argument, and the keyword arguments of a call: any of the     *)
(* fields, each with a value, written in the order of the class body.      *)
Keyword(attr, value) == [attr |-> attr, value |-> value]

KwNames(kwargs) == {kwargs[i].attr : i \in 1..Len(kwargs)}

(* The names a call can give by keyword: the fields of the class, those of *)
(* its bases and one name that no class declares.                          *)
KwChoices(cd) == Properties(cd) \o InheritedProperties(cd.name) \o <<"extra">>

KwSeq(cd, g) ==
    LET given == SelectSeq(KwChoices(cd), LAMBDA a : a \in DOMAIN g)
    IN  [i \in 1..Len(given) |-> Keyword(given[i], g[given[i]])]

KwInputs(cd) ==
    {KwSeq(cd, g) : g \in UNION {[S -> CtorValues] : S \in SUBSET Names(KwChoices(cd))}}

(* The positional arguments of a call: up to one more than the fields. *)
PosInputs(cd) ==
    UNION {[1..n -> CtorValues] : n \in 0..(Len(cd.fields) + 1)}

Min(a, b) == IF a < b THEN a ELSE b

(* zip(properties, args) *)
Positionals(cd, args) ==
    [i \in 1..Min(Len(args), Len(cd.fields)) |-> Keyword(Properties(cd)[i], args[i])]

(* The positional arguments whose field is also given by keyword. *)
Duplicates(cd, args, kwargs) ==
    SelectSeq(Positionals(cd, args), LAMBDA p : p.attr \in KwNames(kwargs))

(* missing: the required names not among the arguments *)
Missing(cd, kwargs) ==
    SelectSeq(Required(cd), LAMBDA a : a \notin KwNames(kwargs))

Quoted(a) == "'" \o a \o "'"

RECURSIVE JoinQuoted(_, _)
JoinQuoted(names, sep) ==
    IF Len(names) = 0 THEN ""
    ELSE IF Len(names) = 1 THEN Quoted(names[1])
    ELSE Quoted(names[1]) \o sep \o JoinQuoted(Tail(names), sep)

AllButLast(names) == SubSeq(names, 1, Len(names) - 1)

(* args of the message: 'a';  'a' and 'b';  'a', 'b', and 'c' *)
MissingText(missing) ==
    IF Len(missing) > 1
    THEN JoinQuoted(AllButLast(missing), ", ")
            \o (IF Len(missing) > 2 THEN "," ELSE "")
            \o " and " \o Quoted(missing[Len(missing)])
    ELSE Quoted(missing[1])

MissingMessage(missing) ==
    "__init__() missing " \o ToString(Len(missing)) \o " required argument"
        \o (IF Len(missing) > 1 THEN "s" ELSE "") \o ": " \o MissingText(missing)

(* for attr, value in kwargs.items(): if attr in properties:               *)
(* setattr(self, attr, value); the first setter that raises ends the loop. *)
RECURSIVE SetAll(_, _, _)
SetAll(inst, properties, kwargs) ==
    IF Len(kwargs) = 0 THEN ROut(Ok(NoneV), inst)
    ELSE IF kwargs[1].attr \notin Names(properties)
    THEN SetAll(inst, properties, Tail(kwargs))
    ELSE LET r == FSet(inst, kwargs[1].attr, kwargs[1].value)
         IN  IF r.out.kind = "ok" THEN SetAll(r.inst, properties, Tail(kwargs)) ELSE r

InitCallMissingFirst(cd, inst, args, kwargs) ==
    LET all == kwargs \o Positionals(cd, args)
    IN  IF Len(Missing(cd, all)) > 0
        THEN ROut(Raise("TypeError", MissingMessage(Missing(cd, all))), inst)
        ELSE IF Len(Duplicates(cd, args, kwargs)) > 0
        THEN ROut(Raise("TypeError",
                        "__init__() got multiple values for argument "
                            \o Quoted(Duplicates(cd, args, kwargs)[1].attr)),
                  inst)
        ELSE SetAll(inst, Properties(cd), all)

InitCallReversed(cd, inst, args, kwargs) ==
    LET n == Min(Len(args), Len(cd.fields))
        all == kwargs \o [i \in 1..n |-> Keyword(Properties(cd)[n + 1 - i], args[i])]
    IN  IF Len(Duplicates(cd, args, kwargs)) > 0
        THEN ROut(Raise("TypeError",
                        "__init__() got multiple values for argument "
                            \o Quoted(Duplicates(cd, args, kwargs)[1].attr)),
                  inst)
        ELSE IF Len(Missing(cd, all)) > 0
        THEN ROut(Raise("TypeError", MissingMessage(Missing(cd, all))), inst)
        ELSE SetAll(inst, Properties(cd), all)

InitCallSetsFirst(cd, inst, args, kwargs) ==
    LET all == kwargs \o Positionals(cd, args)
        set == SetAll(inst, Properties(cd),
                      SelectSeq(all, LAMBDA p : p.attr \notin Names(Missing(cd, all))))
    IN  IF Len(Missing(cd, all)) > 0 /\ set.out.kind = "ok"
        THEN ROut(Raise("TypeError", MissingMessage(Missing(cd, all))), set.inst)
        ELSE set

(* A constructor that takes no argument it has no field for *)
InitCallRejectsSurplus(cd, inst, args, kwargs) ==
    LET all == kwargs \o Positionals(cd, args)
    IN  IF Len(args) > Len(cd.fields) \/ ~(KwNames(kwargs) \subseteq Names(Properties(cd)))
        THEN ROut(Raise("TypeError", "__init__() got an unexpected argument"), inst)
        ELSE IF Len(Duplicates(cd, args, kwargs)) > 0
        THEN ROut(Raise("TypeError",
                        "__init__() got multiple values for argument "
                            \o Quoted(Duplicates(cd, args, kwargs)[1].attr)),
                  inst)
        ELSE IF Len(Missing(cd, all)) > 0
        THEN ROut(Raise("TypeError", MissingMessage(Missing(cd, all))), inst)
        ELSE SetAll(inst, Properties(cd), all)

(* A constructor that also assigns the fields of the bases *)
InitCallSetsInherited(cd, inst, args, kwargs) ==
    LET all == kwargs \o Positionals(cd, args)
    IN  IF Len(Duplicates(cd, args, kwargs)) > 0
        THEN ROut(Raise("TypeError",
                        "__init__() got multiple values for argument "
                            \o Quoted(Duplicates(cd, args, kwargs)[1].attr)),
                  inst)
        ELSE IF Len(Missing(cd, all)) > 0
        THEN ROut(Raise("TypeError", MissingMessage(Missing(cd, all))), inst)
        ELSE SetAll(inst, Properties(cd) \o InheritedProperties(cd.name), all)

(* _BaseAnnotatedObject.__init__(self, args, kwargs): self is inst; the *)
(* keywords come first in kwargs, the positionals are added after them.    *)
InitCall(cd, inst, args, kwargs) ==
    LET all == kwargs \o Positionals(cd, args)
    IN  IF Len(Duplicates(cd, args, kwargs)) > 0
        THEN ROut(Raise("TypeError",
                        "__init__() got multiple values for argument "
                            \o Quoted(Duplicates(cd, args, kwargs)[1].attr)),
                  inst)
        ELSE IF Len(Missing(cd, all)) > 0
        THEN ROut(Raise("TypeError", MissingMessage(Missing(cd, all))), inst)
        ELSE SetAll(inst, Properties(cd), all)

(* a == b on two values *)
PyEq(v, w) ==
    IF v.t \in {"int", "bool"} /\ w.t \in {"int", "bool"} THEN v.n = w.n ELSE v = w

(* hash(v) *)
HashValue(v) ==
    CASE v.t \in {"int", "bool"} -> (IF v.n = -1 THEN -2 ELSE v.n)
      [] v.t = "str" -> 1000 + Len(v.s)
      [] OTHER -> 99

HashModulus == 65536

RECURSIVE HashTuple(_)
HashTuple(values) ==
    IF Len(values) = 0 THEN 7
    ELSE (31 * HashTuple(AllButLast(values)) + HashValue(values[Len(values)]))
            % HashModulus

(* _tp__get_typed_properties: the tuple of the property values; an         *)
(* AttributeError of a getter becomes NotImplementedError.                 *)
TypedProperties(inst) ==
    LET props == Properties(ClassNamed(inst.cls))
    IN  IF \E i \in 1..Len(props) : FGet(inst, props[i]).kind # "ok"
        THEN Raise("NotImplementedError", "")
        ELSE [kind |-> "ok",
              val |-> [i \in 1..Len(props) |-> FGet(inst, props[i]).val],
              msg |-> ""]

TupleEq(s, t) ==
    /\ Len(s) = Len(t)
    /\ \A i \in 1..Len(s) : PyEq(s[i], t[i])

EqIgnoringClass(a, b) ==
    IF TypedProperties(a).kind # "ok" THEN Raise("NotImplementedError", "")
    ELSE IF TypedProperties(b).kind # "ok" THEN Raise("NotImplementedError", "")
    ELSE IF Len(TypedProperties(a).val) # Len(TypedProperties(b).val) THEN Ok(BoolV(FALSE))
    ELSE Ok(BoolV(TupleEq(TypedProperties(a).val, TypedProperties(b).val)))

(* a == b for two distinct objects: __eq__ returns NotImplemented for      *)
(* another class, on both sides, and Python then compares identities.      *)
Eq(a, b) ==
    IF a.cls # b.cls THEN Ok(BoolV(FALSE))
    ELSE IF TypedProperties(a).kind # "ok" THEN Raise("NotImplementedError", "")
    ELSE IF TypedProperties(b).kind # "ok" THEN Raise("NotImplementedError", "")
    ELSE Ok(BoolV(TupleEq(TypedProperties(a).val, TypedProperties(b).val)))

(* The strings a field of the model can hold, in the order of str.__lt__. *)
StrOrder == <<"0", "1", "2", "None", "a">>

StrLess(s, u) ==
    (CHOOSE i \in 1..Len(StrOrder) : StrOrder[i] = s)
        < (CHOOSE i \in 1..Len(StrOrder) : StrOrder[i] = u)

(* v < w on two values *)
ValueLess(v, w) ==
    IF v.t \in {"int", "bool"} /\ w.t \in {"int", "bool"} THEN Ok(BoolV(v.n < w.n))
    ELSE IF v.t = "str" /\ w.t = "str" THEN Ok(BoolV(StrLess(v.s, w.s)))
    ELSE Raise("TypeError",
               "'<' not supported between instances of '" \o v.t \o "' and '" \o w.t \o "'")

(* s < t on two tuples: the first items that are not equal decide, else    *)
(* the lengths do.                                                         *)
RECURSIVE TupleLess(_, _)
TupleLess(s, u) ==
    IF Len(s) = 0 \/ Len(u) = 0 THEN Ok(BoolV(Len(s) < Len(u)))
    ELSE IF PyEq(s[1], u[1]) THEN TupleLess(Tail(s), Tail(u))
    ELSE ValueLess(s[1], u[1])

NotImplemented == [kind |-> "NotImplemented", val |-> NoneV, msg |-> ""]

(* not r, for the outcome r of a comparison *)
Negated(r) == IF r.kind = "ok" THEN Ok(BoolV(r.val = BoolV(FALSE))) ELSE r

(* _AnnotatedObjectComparisonMixin.__lt__ *)
Lt(a, b) ==
    IF a.cls # b.cls THEN NotImplemented
    ELSE IF TypedProperties(a).kind # "ok" THEN Raise("NotImplementedError", "")
    ELSE IF TypedProperties(b).kind # "ok" THEN Raise("NotImplementedError", "")
    ELSE TupleLess(TypedProperties(a).val, TypedProperties(b).val)

(* _AnnotatedObjectComparisonMixin.__le__: self == other or self < other *)
Le(a, b) ==
    IF a.cls # b.cls THEN NotImplemented
    ELSE IF Eq(a, b).kind # "ok" THEN Eq(a, b)
    ELSE IF Eq(a, b).val = BoolV(TRUE) THEN Ok(BoolV(TRUE))
    ELSE Lt(a, b)

(* _AnnotatedObjectComparisonMixin.__gt__: not self <= other *)
Gt(a, b) == IF a.cls # b.cls THEN NotImplemented ELSE Negated(Le(a, b))

(* A greater-or-equal that negates less-or-equal *)
GeAsNotLe(a, b) == IF a.cls # b.cls THEN NotImplemented ELSE Negated(Le(a, b))

(* _AnnotatedObjectComparisonMixin.__ge__: not self < other *)
Ge(a, b) == IF a.cls # b.cls THEN NotImplemented ELSE Negated(Lt(a, b))

OrderOps == {"<", "<=", ">", ">="}

Method(op, a, b) ==
    CASE op = "<" -> Lt(a, b)
      [] op = "<=" -> Le(a, b)
      [] op = ">" -> Gt(a, b)
      [] OTHER -> Ge(a, b)

Reflected(op) ==
    CASE op = "<" -> ">"
      [] op = "<=" -> ">="
      [] op = ">" -> "<"
      [] OTHER -> "<="

(* a op b: the method of a, and when it returns NotImplemented the         *)
(* reflected method of b; TypeError when that returns NotImplemented too.  *)
Compare(op, a, b) ==
    IF Method(op, a, b) # NotImplemented THEN Method(op, a, b)
    ELSE IF Method(Reflected(op), b, a) # NotImplemented
    THEN Method(Reflected(op), b, a)
    ELSE Raise("TypeError",
               "'" \o op \o "' not supported between instances of '"
                   \o a.cls \o "' and '" \o b.cls \o "'")

(* hash(a): _AnnotatedObjectComparisonMixin.__hash__ *)
Hash(a) ==
    IF TypedProperties(a).kind # "ok" THEN Raise("NotImplementedError", "")
    ELSE Ok(IntV(HashTuple(TypedProperties(a).val)))

(* '{}={}'.format(attr_name, repr(getattr(self, attr_name))), joined *)
RECURSIVE JoinFields(_, _)
JoinFields(inst, names) ==
    IF Len(names) = 0 THEN ""
    ELSE names[1] \o "=" \o Repr(FGet(inst, names[1]).val)
            \o (IF Len(names) > 1 THEN ", " ELSE "") \o JoinFields(inst, Tail(names))

(* repr(a): _BaseAnnotatedObject.__repr__; the AttributeError of the first *)
(* getter that raises passes through.                                      *)
RecordRepr(inst) ==
    LET props == Properties(ClassNamed(inst.cls))
        bad == {i \in 1..Len(props) : FGet(inst, props[i]).kind # "ok"}
    IN  IF bad # {}
        THEN FGet(inst, props[CHOOSE i \in bad : \A j \in bad : i <= j])
        ELSE Ok(StrV(inst.cls \o "(" \o JoinFields(inst, props) \o ")"))

(* The instances a constructor call with positional arguments returns. *)
Built ==
    UNION {{InitCall(cd, Fresh(cd), args, <<>>).inst :
                args \in {p \in PosInputs(cd) :
                            InitCall(cd, Fresh(cd), p, <<>>).out.kind = "ok"}} :
           cd \in RecordClasses}

(* ----------------- class statements (_AnnotatedObjectMeta) ------------ *)
(* The names of a class body of the model: a private one, a constant, one  *)
(* that can be shadowed by an entry '__s', and a plain one.                *)
BodyNames == {"_p", "MAX", "s", "ok"}

Private(attr) == "__" \o attr

(* The class bodies: attrs gives the names with a value, annotations the   *)
(* annotated names; the entry '__s', when there is one, has no annotation. *)
Bodies ==
    UNION {[attrs : [valued \cup shadow -> {IntV(1)}], annotations : SUBSET BodyNames] :
            valued \in SUBSET BodyNames, shadow \in {{}, {Private("s")}}}

(* names = list(attrs) + list(annotations) *)
NamesOf(body) == DOMAIN body.attrs \cup body.annotations

(* attr.startswith('_') and attr.isupper() on the names of the model *)
StartsWithUnderscore(attr) == attr \in {"_p"} \cup {Private(a) : a \in BodyNames}

IsUpper(attr) == attr = "MAX"

(* _is_propertyable(names, attrs, annotations, attr) *)
_is_propertyable(body, attr) ==
    /\ attr \in body.annotations
    /\ ~StartsWithUnderscore(attr)
    /\ ~IsUpper(attr)
    /\ Private(attr) \notin NamesOf(body)

PropertyV(attr) == [t |-> "property", n |-> 0, s |-> attr]

(* attrs.get(attr) *)
AttrsGet(body, attr) == IF attr \in DOMAIN body.attrs THEN body.attrs[attr] ELSE NoneV

(* typed_attrs after the loop over names: {} for a name the class does not *)
(* get, {v} for one it gets with the value v.                              *)
TypedAttrs(body) ==
    [n \in BodyNames \cup {Private(a) : a \in BodyNames} |->
        IF n \in NamesOf(body) /\ _is_propertyable(body, n) THEN {PropertyV(n)}
        ELSE IF \E a \in NamesOf(body) :
                    /\ _is_propertyable(body, a)
                    /\ Private(a) = n
                    /\ a \in DOMAIN body.attrs
        THEN {body.attrs[CHOOSE a \in DOMAIN body.attrs : Private(a) = n]}
        ELSE IF n \in NamesOf(body) THEN {AttrsGet(body, n)}
        ELSE {}]

NoClass ==
    [body |-> [attrs |-> <<>>, annotations |-> {}],
     made |-> [n \in BodyNames \cup {Private(a) : a \in BodyNames} |-> {}]]

(* ------------------------- the state machine -------------------------- *)
validationVars == <<cls, last>>

metaVars == <<heap, instance, returned, mlast>>

recordVars == <<rec, rlast, classvals>>

vars == <<cls, last, heap, instance, returned, mlast, rec, rlast, classvals, klass>>

NoArgs == Tuple(<<>>)

Did(op, name, args, arg, out) ==
    [op |-> op, spec |-> name, args |-> args, arg |-> arg, out |-> out]

NoCallArgs == [pos |-> <<>>, kw |-> {}]

MDid(c, a, out) == [cls |-> c, args |-> a, out |-> out]

(* An operation on a record: its inputs, its outcome and the object it     *)
(* acted on as the operation left it.                                      *)
RDid(op, name, args, kwargs, attr, value, other, r) ==
    [op |-> op, cls |-> name, args |-> args, kwargs |-> kwargs, attr |-> attr,
     value |-> value, other |-> other, out |-> r.out, after |-> r.inst]

Init ==
    /\ cls = NoType
    /\ last = Did("init", "none", NoArgs, NoneV, Ok(NoneV))
    /\ heap = <<>>
    /\ instance = [c \in InstanceClasses |-> NoObject]
    /\ returned = [c \in InstanceClasses |-> {}]
    /\ mlast = MDid("none", NoCallArgs, MOk(NoObject))
    /\ rec = NoRecord
    /\ rlast = RDid("init", "none", <<>>, <<>>, "", NoneV, NoRecord, ROut(Ok(NoneV), NoRecord))
    /\ classvals = [name \in {cd.name : cd \in RecordClasses} |-> ClassBody(ClassNamed(name))]
    /\ klass = NoClass

(* T = name[args]: _BoundedMeta.__getitem__ *)
GetItem ==
    /\ \E name \in Specializations : \E args \in Inputs(name) :
        LET g == GetArgs(name, args)
        IN  IF g.kind = "ok"
            THEN /\ cls' = Subclass(name, g)
                 /\ last' = Did("getitem", name, args, NoneV, Ok(NoneV))
            ELSE /\ cls' = cls
                 /\ last' = Did("getitem", name, args, NoneV, Raise(g.kind, g.msg))
    /\ UNCHANGED <<metaVars, recordVars, klass>>

(* T(value): _BoundedSubclass.__new__ *)
Construct ==
    /\ cls # NoType
    /\ \E value \in Values :
        last' = Did("new", cls.spec, NoArgs, value, New(cls, value))
    /\ UNCHANGED cls
    /\ UNCHANGED <<metaVars, recordVars, klass>>

(* isinstance(other, T): _ValidationMeta.__instancecheck__ *)
IsInstance ==
    /\ cls # NoType
    /\ \E other \in Values :
        last' = Did("isinstance", cls.spec, NoArgs, other, InstanceCheck(cls, other))
    /\ UNCHANGED cls
    /\ UNCHANGED <<metaVars, recordVars, klass>>

(* repr(T): _ValidationMeta.__repr__ *)
ReprType ==
    /\ cls # NoType
    /\ last' = Did("repr", cls.spec, NoArgs, NoneV, ClassReprOf(cls))
    /\ UNCHANGED cls
    /\ UNCHANGED <<metaVars, recordVars, klass>>

Next == GetItem \/ Construct \/ IsInstance \/ ReprType

Spec == Init /\ [][Next]_vars

(* --------------------- calls of classes with a metaclass -------------- *)
MState == [heap |-> heap, instance |-> instance]

(* The objects and the __init__ runs of the model are bounded. *)
WithinBounds(r) ==
    /\ Len(r.heap) <= MaxObjects
    /\ \A i \in 1..Len(r.heap) : r.heap[i].inits <= MaxInits

MetaStep(c, a, r) ==
    /\ WithinBounds(r)
    /\ heap' = r.heap
    /\ instance' = r.instance
    /\ returned' = IF r.out.kind = "ok" /\ c \in InstanceClasses
                   THEN [returned EXCEPT ![c] = @ \cup {r.out.id}]
                   ELSE returned
    /\ mlast' = MDid(c, a, r.out)
    /\ UNCHANGED <<validationVars, recordVars, klass>>

(* C(args) for a class C with metaclass Singleton *)
CallSingleton ==
    \E c \in SingletonClasses : \E a \in CallArgs :
        MetaStep(c, a, SingletonCall(c, a, MState))

(* C(args) for a class C with metaclass IdempotentSingleton *)
CallIdempotent ==
    \E c \in IdempotentClasses : \E a \in CallArgs :
        MetaStep(c, a, IdempotentCall(c, a, MState))

(* C(args) for a class C with metaclass Uninstantiable *)
CallUninstantiable ==
    \E c \in UninstantiableClasses : \E a \in CallArgs :
        MetaStep(c, a, UninstantiableCall(c, a, MState))

(* String(args) *)
CallString ==
    \E a \in CallArgs : MetaStep("String", a, StringCall(a, MState))

NextMeta == CallSingleton \/ CallIdempotent \/ CallUninstantiable \/ CallString

SpecMeta == Init /\ [][NextMeta]_vars

(* ------------------------- operations on records ---------------------- *)
(* rec = C(args, kwargs), the one construction of a behaviour; when it     *)
(* fails no record is in use.                                              *)
NewRecord ==
    /\ rec = NoRecord
    /\ rlast.op = "init"
    /\ \E cd \in RecordClasses : \E args \in PosInputs(cd) : \E kwargs \in KwInputs(cd) :
        LET r == InitCall(cd, Fresh(cd), args, kwargs)
        IN  /\ rec' = IF r.out.kind = "ok" THEN r.inst ELSE NoRecord
            /\ rlast' = RDid("new", cd.name, args, kwargs, "", NoneV, NoRecord, r)
            /\ classvals' = ClassAfterSetattr(Fresh(cd), r.inst)
    /\ UNCHANGED <<klass, validationVars, metaVars>>

(* rec.attr = value *)
SetAttr ==
    /\ rec # NoRecord
    /\ \E attr \in DOMAIN rec.vals : \E value \in RecValues :
        LET r == FSet(rec, attr, value)
        IN  /\ rec' = r.inst
            /\ rlast' = RDid("set", rec.cls, <<>>, <<>>, attr, value, NoRecord, r)
            /\ classvals' = ClassAfterSetattr(rec, r.inst)
    /\ UNCHANGED <<klass, validationVars, metaVars>>

(* rec.attr *)
GetAttr ==
    /\ rec # NoRecord
    /\ \E attr \in DOMAIN rec.vals :
        rlast' = RDid("get", rec.cls, <<>>, <<>>, attr, NoneV, NoRecord,
                      ROut(FGet(rec, attr), rec))
    /\ UNCHANGED <<rec, classvals, klass, validationVars, metaVars>>

(* rec == other *)
Equal ==
    /\ rec # NoRecord
    /\ \E other \in Built :
        rlast' = RDid("eq", rec.cls, <<>>, <<>>, "", NoneV, other,
                      ROut(Eq(rec, other), rec))
    /\ UNCHANGED <<rec, classvals, klass, validationVars, metaVars>>

(* hash(rec) == hash(other) *)
HashEqual ==
    /\ rec # NoRecord
    /\ \E other \in Built :
        rlast' = RDid("hash", rec.cls, <<>>, <<>>, "", NoneV, other,
                      ROut(IF Hash(rec).kind # "ok" THEN Hash(rec)
                           ELSE IF Hash(other).kind # "ok" THEN Hash(other)
                           ELSE Ok(BoolV(Hash(rec).val = Hash(other).val)),
                           rec))
    /\ UNCHANGED <<rec, classvals, klass, validationVars, metaVars>>

(* rec < other, rec <= other, rec > other, rec >= other *)
Order ==
    /\ rec # NoRecord
    /\ \E op \in OrderOps : \E other \in Built :
        rlast' = RDid(op, rec.cls, <<>>, <<>>, "", NoneV, other,
                      ROut(Compare(op, rec, other), rec))
    /\ UNCHANGED <<rec, classvals, klass, validationVars, metaVars>>

(* repr(rec) *)
Represent ==
    /\ rec # NoRecord
    /\ rlast' = RDid("repr", rec.cls, <<>>, <<>>, "", NoneV, NoRecord,
                     ROut(RecordRepr(rec), rec))
    /\ UNCHANGED <<rec, classvals, klass, validationVars, metaVars>>

NextRecord ==
    NewRecord \/ SetAttr \/ GetAttr \/ Equal \/ HashEqual \/ Order \/ Represent

SpecRecord == Init /\ [][NextRecord]_vars

(* -------------------------- class statements -------------------------- *)
(* class C(Object): body, with native annotations *)
DefineClass ==
    /\ \E body \in Bodies : klass' = [body |-> body, made |-> TypedAttrs(body)]
    /\ UNCHANGED <<validationVars, metaVars, recordVars>>

NextClass == DefineClass

SpecClass == Init /\ [][NextClass]_vars

(* ------------------------------ claims -------------------------------- *)
LastNew == last.op = "new"
LastIs == last.op = "isinstance"
LastRepr == last.op = "repr"

IsBoundedInt(S) ==
    /\ S.spec = "Bounded" /\ S.type_ = "int" /\ S.keyfunc = "identity"
    /\ S.start # {} /\ S.stop # {}

(* C1: for a < b and an int x, Bounded[int, a:b](x) returns x unchanged    *)
(* iff a <= x <= b, raises the "below the minimum" ValueError iff x < a    *)
(* and the "above the maximum" ValueError iff x > b.                       *)
C1_BoundedInclusive ==
    (LastNew /\ IsBoundedInt(cls) /\ last.arg.t = "int"
        /\ Val(cls.start) < Val(cls.stop))
    => LET a == Val(cls.start)
           b == Val(cls.stop)
           x == last.arg.n
       IN  /\ (last.out = Ok(last.arg)) <=> (a <= x /\ x <= b)
           /\ (last.out = Raise("ValueError",
                    "The value " \o ToString(x)
                        \o " is below the minimum allowed value of " \o ToString(a) \o "."))
              <=> (x < a)
           /\ (last.out = Raise("ValueError",
                    "The value " \o ToString(x)
                        \o " is above the maximum allowed value of " \o ToString(b) \o "."))
              <=> (x > b)

C1_Witness ==
    /\ LastNew /\ IsBoundedInt(cls) /\ last.arg.t = "int"
    /\ Val(cls.start) < Val(cls.stop)
    /\ last.arg.n = Val(cls.start)
    /\ last.out = Ok(last.arg)

(* What the claims call "v is an instance of the base type T": every    *)
(* value is an instance of Any.                                           *)
InstanceOf(v, type_) ==
    \/ type_ = "Any"
    \/ type_ = "int" /\ v.t \in {"int", "bool"}
    \/ type_ = "str" /\ v.t = "str"

(* C2: construction and instance-check agree: S(v) completes without      *)
(* error iff isinstance(v, S) is True.                                    *)
C2_ConstructionAgreesWithInstanceCheck ==
    LastIs => ((New(cls, last.arg).kind = "ok") <=> (last.out = Ok(BoolV(TRUE))))

(* C3: isinstance(v, S) returns True iff v is an instance of the base     *)
(* type and the construction check on v does not raise the ValueError,    *)
(* and returns False (never raises) otherwise.                            *)
C3_InstanceCheckIsTypeAndBounds ==
    LastIs =>
        last.out = Ok(BoolV(/\ InstanceOf(last.arg, cls.type_)
                            /\ New(cls, last.arg).kind # "ValueError"))

(* C4: when coercing the raw value into the base type fails, whatever the *)
(* error, construction goes on with the raw value as the instance: its    *)
(* outcome is that of the key and the bound/predicate check on the raw    *)
(* value.                                                                 *)
C4_CoercionFailureAbsorbed ==
    (LastNew /\ CallType(_get_bases(cls.type_), last.arg).kind # "ok")
    => last.out = CheckInstance(cls, last.arg, last.arg)

(* C5: for a string s, Length[str, a:b](s) returns s iff                  *)
(* a <= len(s) <= b, and otherwise raises the ValueError whose message is *)
(* the keyed form, naming len(<repr of s>) and the computed length.       *)
IsLengthStr(S) ==
    S.spec = "Length" /\ S.type_ = "str" /\ S.start # {} /\ S.stop # {}

C5_LengthOfStr ==
    (LastNew /\ IsLengthStr(cls) /\ last.arg.t = "str")
    => LET a == Val(cls.start)
           b == Val(cls.stop)
           n == Len(last.arg.s)
           keyed == "The value of len('" \o last.arg.s \o "') [" \o ToString(n) \o "] is "
       IN  /\ (last.out = Ok(last.arg)) <=> (a <= n /\ n <= b)
           /\ n < a =>
                last.out = Raise("ValueError",
                    keyed \o "below the minimum allowed value of " \o ToString(a) \o ".")
           /\ (n >= a /\ n > b) =>
                last.out = Raise("ValueError",
                    keyed \o "above the maximum allowed value of " \o ToString(b) \o ".")

C5_Witness ==
    /\ LastNew /\ IsLengthStr(cls) /\ last.arg.t = "str"
    /\ Val(cls.start) <= Val(cls.stop)
    /\ Len(last.arg.s) > Val(cls.stop)
    /\ last.out.kind = "ValueError"

(* C6: Valid[f](x) returns x iff f(x) is truthy, and raises ValueError    *)
(* (returning nothing) when f(x) is falsy.                                *)
IsValidAny(S) == S.spec = "Valid" /\ S.type_ = "Any"

C6_ValidPredicate ==
    (LastNew /\ IsValidAny(cls))
    => LET r == ApplyKey(cls.keyfunc, last.arg)
       IN  /\ (last.out = Ok(last.arg)) <=> (r.kind = "ok" /\ Truthy(r.val))
           /\ (r.kind = "ok" /\ ~Truthy(r.val))
                => (last.out.kind = "ValueError" /\ last.out.val = NoneV)

C6_Witness ==
    /\ LastNew /\ IsValidAny(cls) /\ cls.keyfunc = "len"
    /\ last.arg = StrV("")
    /\ last.out.kind = "ValueError"

(* C7, as claimed: whenever Valid[T, f](x) returns a value, that value is *)
(* an instance of T and f of it is truthy.                                *)
IsValidTyped(S) == S.spec = "Valid" /\ S.type_ # "Any"

KeyTruthy(keyfunc, v) ==
    LET r == ApplyKey(keyfunc, v) IN r.kind = "ok" /\ Truthy(r.val)

C7_ValidReturnsInstanceOfT ==
    (LastNew /\ IsValidTyped(cls) /\ last.out.kind = "ok")
    => /\ InstanceOf(last.out.val, cls.type_)
       /\ KeyTruthy(cls.keyfunc, last.out.val)

(* C7, amended: whenever Valid[T, f](x) returns a value, f of it is       *)
(* truthy, and the value is an instance of T unless coercing x to T       *)
(* failed, in which case it is x itself, unchanged.                       *)
C7_ValidReturnsInstanceOrRaw ==
    (LastNew /\ IsValidTyped(cls) /\ last.out.kind = "ok")
    => /\ KeyTruthy(cls.keyfunc, last.out.val)
       /\ \/ InstanceOf(last.out.val, cls.type_)
          \/ /\ last.out.val = last.arg
             /\ CallType(cls.type_, last.arg).kind # "ok"

C7_Witness ==
    /\ LastNew /\ IsValidTyped(cls) /\ last.out.kind = "ok"
    /\ ~InstanceOf(last.out.val, cls.type_)
    /\ last.out.val = last.arg

(* Every type one specialization can be sliced into, from the inputs *)
Synthesized(name) ==
    {Subclass(name, GetArgs(name, args)) :
        args \in {i \in Inputs(name) : GetArgs(name, i).kind = "ok"}}

Parameters(S) == <<S.type_, S.start, S.stop, S.keyfunc>>

(* C8: the repr of a synthesized type determines its parameters: two      *)
(* parameterizations of one specialization that differ in base type,      *)
(* lower bound, upper bound or key have different reprs.                  *)
C8_ReprDeterminesParameters ==
    LastRepr =>
        \A other \in Synthesized(cls.spec) :
            Parameters(other) # Parameters(cls)
                => ClassReprOf(other) # last.out

(* C9: the repr has the fixed format <module>.Bounded[<type>, <lower>:<upper>] *)
(* (with ", <key full name>" appended for a key other than the identity), *)
(* <module>.Length[<type>, <lower>:<upper>] and <module>.String[<lower>:<upper>], *)
(* an absent bound being rendered blank and a present one as its number.  *)
BoundText(b) == IF b = {} THEN "" ELSE ToString(Val(b))

RangeText(S) == BoundText(S.start) \o ":" \o BoundText(S.stop)

FormatOf(S) ==
    CASE S.spec = "Bounded" /\ S.keyfunc = "identity" ->
            "typet.validation.Bounded[" \o _get_fullname(S.type_) \o ", " \o RangeText(S) \o "]"
      [] S.spec = "Bounded" /\ S.keyfunc # "identity" ->
            "typet.validation.Bounded[" \o _get_fullname(S.type_) \o ", " \o RangeText(S)
                \o ", " \o _get_fullname(S.keyfunc) \o "]"
      [] S.spec = "Length" ->
            "typet.validation.Length[" \o _get_fullname(S.type_) \o ", " \o RangeText(S) \o "]"
      [] OTHER -> "typet.validation.String[" \o RangeText(S) \o "]"

ReprOfSliced(name, args) == ClassReprOf(Subclass(name, GetArgs(name, args))).val.s

C9_ReprFormat ==
    /\ (LastRepr /\ cls.spec \in {"Bounded", "Length", "String"})
            => last.out = Ok(StrV(FormatOf(cls)))
    /\ ReprOfSliced("Bounded", Tuple(<<TypeItem("int"), SliceItem({10}, {20})>>))
            = "typet.validation.Bounded[int, 10:20]"
    /\ ReprOfSliced("Length", Tuple(<<TypeItem("str"), SliceItem({1}, {5})>>))
            = "typet.validation.Length[str, 1:5]"
    /\ ReprOfSliced("String", Bare(SliceItem({1}, {5})))
            = "typet.validation.String[1:5]"

(* C10: a subscript of the wrong arity raises TypeError at synthesis and  *)
(* yields no type: Bounded takes 2 or 3 arguments, Length exactly 2,      *)
(* Valid a bare predicate or 2; no subscript of an accepted arity raises  *)
(* TypeError, and the ValueError of a value check is never raised here.   *)
ArityAccepted(name, args) ==
    CASE name = "Bounded" -> args.tuple /\ Len(args.items) \in {2, 3}
      [] name = "Length" -> args.tuple /\ Len(args.items) = 2
      [] name = "Valid" -> ~args.tuple \/ Len(args.items) = 2
      [] OTHER -> ~args.tuple

C10_ArityIsTypeError ==
    [][(last'.op = "getitem" /\ last'.spec \in {"Bounded", "Length", "Valid"})
        => /\ (last'.out.kind = "TypeError") <=> ~ArityAccepted(last'.spec, last'.args)
           /\ last'.out.kind # "ValueError"
           /\ ~ArityAccepted(last'.spec, last'.args) => cls' = cls
           /\ last'.out.kind = "ok" => cls'.spec = last'.spec]_vars

C10_Witness ==
    /\ last.op = "getitem" /\ last.spec = "Length"
    /\ last.args.tuple /\ Len(last.args.items) = 3
    /\ last.out.kind = "TypeError"
    /\ cls.spec = "Bounded"

(* ----------------------- claims on metaclasses ------------------------ *)
ObjectsOf(c) == {i \in 1..Len(heap) : heap[i].cls = c}

(* C11: calling a class whose metaclass is Uninstantiable (a class of      *)
(* one's own, or the unsliced Bounded, Length or Valid) raises TypeError   *)
(* whatever the positional and keyword arguments are, and no instance of   *)
(* such a class ever exists.                                               *)
C11_UninstantiableRaises ==
    /\ mlast.cls \in UninstantiableClasses =>
            /\ mlast.out.kind = "TypeError"
            /\ mlast.out.id = NoObject
    /\ \A c \in UninstantiableClasses : ObjectsOf(c) = {}

C11_Witness ==
    /\ mlast.cls = "Bounded"
    /\ mlast.args.pos = <<>>
    /\ mlast.args.kw = {}
    /\ mlast.out.msg = "Type Bounded cannot be instantiated."

(* C12: for every class whose metaclass is Singleton, whatever calls were  *)
(* made with whatever arguments, all the calls that returned gave the      *)
(* identical instance and the class was instantiated at most once.         *)
C12_SingletonOnce ==
    \A c \in SingletonClasses :
        /\ Cardinality(returned[c]) <= 1
        /\ Cardinality(ObjectsOf(c)) <= 1

(* C13: for a class whose metaclass is IdempotentSingleton, a call made    *)
(* while the class has no instance creates the instance and runs __init__  *)
(* once; a call made once it has one creates no object, runs __init__      *)
(* again on the existing instance with the arguments of that call, and     *)
(* returns that instance, also when that __init__ raises TypeError.        *)
C13_IdempotentReinit ==
    [][\A c \in IdempotentClasses :
        (mlast'.cls = c /\ mlast' # mlast) =>
            IF instance[c] = NoObject
            THEN mlast'.out.kind = "ok" =>
                    /\ Len(heap') = Len(heap) + 1
                    /\ mlast'.out.id = Len(heap')
                    /\ heap'[Len(heap')] = [cls |-> c, inits |-> 1, args |-> mlast'.args]
                    /\ instance'[c] = mlast'.out.id
            ELSE /\ Len(heap') = Len(heap)
                 /\ mlast'.out = MOk(instance[c])
                 /\ instance'[c] = instance[c]
                 /\ InitAccepts(c, mlast'.args) =>
                        heap'[instance[c]] =
                            [cls |-> c, inits |-> heap[instance[c]].inits + 1,
                             args |-> mlast'.args]
                 /\ ~InitAccepts(c, mlast'.args) => heap' = heap]_vars

(* ------------------------- claims on records -------------------------- *)
SetOn(strict) == rlast'.op = "set" /\ ClassNamed(rlast'.cls).strict = strict

(* C14: on a record with the strict policy, assigning to a field of        *)
(* declared type T a value that is not an instance of T raises TypeError   *)
(* and leaves that field and every other field as they were; assigning an  *)
(* instance of T stores exactly that value.                                *)
C14_StrictAssignment ==
    [][SetOn(TRUE) =>
        IF is_instance(rlast'.value, PropertyType(Owner(rlast'.cls, rlast'.attr), rlast'.attr))
        THEN /\ rlast'.out.kind = "ok"
             /\ rec'.vals[rlast'.attr] = {rlast'.value}
             /\ \A a \in DOMAIN rec.vals \ {rlast'.attr} : rec'.vals[a] = rec.vals[a]
        ELSE /\ rlast'.out.kind = "TypeError"
             /\ rec' = rec]_vars

C14_Witness ==
    /\ rlast.op = "set"
    /\ rlast.cls = "Point"
    /\ rlast.attr = "x"
    /\ rlast.value = StrV("2")
    /\ rlast.out.kind = "TypeError"
    /\ rec.vals["x"] = {IntV(1)}

(* C15: on a record with the coercing policy, assigning v to a field of    *)
(* declared type T stores v itself when v is an instance of T, else the    *)
(* conversion of v to T (an int assigned to a str field is read back as    *)
(* its decimal text); when v cannot be converted the assignment raises     *)
(* TypeError and the field keeps its value.                                *)
C15_CoercingAssignment ==
    [][SetOn(FALSE) =>
        LET T == PropertyType(Owner(rlast'.cls, rlast'.attr), rlast'.attr)
            v == rlast'.value
        IN  IF is_instance(v, T)
            THEN rlast'.out.kind = "ok" /\ rec' = Stored(rec, rlast'.attr, v)
            ELSE IF CallType(T.name, v).kind = "ok"
            THEN /\ rlast'.out.kind = "ok"
                 /\ rec' = Stored(rec, rlast'.attr, CallType(T.name, v).val)
                 /\ (T.name = "str" /\ v.t = "int") =>
                        FGet(rec', rlast'.attr) = Ok(StrV(ToString(v.n)))
            ELSE rlast'.out.kind = "TypeError" /\ rec' = rec]_vars

C15_Witness ==
    /\ rlast.op = "set"
    /\ rlast.cls = "XComment"
    /\ rlast.value = IntV(1)
    /\ rlast.out.kind = "ok"
    /\ FGet(rec, "x") = Ok(StrV("1"))

LastBuilt == rlast.op = "new"

(* The positions of the last construction that stand for a field. *)
FieldPositions ==
    1..Min(Len(rlast.args), Len(Properties(ClassNamed(rlast.cls))))

(* The positional arguments of the last construction, given by name. *)
ByName ==
    [i \in FieldPositions |->
        Keyword(Properties(ClassNamed(rlast.cls))[i], rlast.args[i])]

(* C16: construction binds the positional arguments to the fields in the   *)
(* order of their declaration, and the record built from positional        *)
(* arguments has the same field values as (and fails exactly when) the     *)
(* one built by naming the same values.                                    *)
C16_PositionalIsKeyword ==
    (LastBuilt /\ rlast.kwargs = <<>>) =>
        LET cd == ClassNamed(rlast.cls)
            named == InitCall(cd, Fresh(cd), <<>>, ByName)
        IN  /\ rlast.out.kind = named.out.kind
            /\ rlast.after = named.inst
            /\ rlast.out.kind = "ok" =>
                \A i \in FieldPositions :
                    rec.vals[Properties(cd)[i]] =
                        FSet(Fresh(cd), Properties(cd)[i], rlast.args[i]).inst.vals[Properties(cd)[i]]

C16_Witness ==
    /\ LastBuilt
    /\ rlast.cls = "Triple"
    /\ rlast.args = <<IntV(1), StrV("a"), StrV("a")>>
    /\ rlast.kwargs = <<>>
    /\ rlast.out.kind = "ok"
    /\ rec.vals["a"] = {IntV(1)}
    /\ rec.vals["c"] = {StrV("a")}

(* The names the last construction supplied, and the required ones it did  *)
(* not, in the order of declaration.                                       *)
Supplied ==
    KwNames(rlast.kwargs) \cup
        {Properties(ClassNamed(rlast.cls))[i] : i \in FieldPositions}

Absent == SelectSeq(Required(ClassNamed(rlast.cls)), LAMBDA a : a \notin Supplied)

SuppliedTwice ==
    KwNames(rlast.kwargs) \cap
        {Properties(ClassNamed(rlast.cls))[i] : i \in FieldPositions}

(* 'a';  'a' and 'b';  'a', 'b' and 'c'  (with a comma before "and" when   *)
(* oxford holds and three or more names are listed)                        *)
ListText(names, oxford) ==
    CASE Len(names) = 1 -> Quoted(names[1])
      [] Len(names) = 2 -> Quoted(names[1]) \o " and " \o Quoted(names[2])
      [] OTHER -> Quoted(names[1]) \o ", " \o Quoted(names[2])
                    \o (IF oxford THEN "," ELSE "") \o " and " \o Quoted(names[3])

MissingRaised(oxford) ==
    (LastBuilt /\ Len(Absent) > 0 /\ SuppliedTwice = {}) =>
        /\ rlast.out.kind = "TypeError"
        /\ rlast.after = Fresh(ClassNamed(rlast.cls))
        /\ rec = NoRecord
        /\ rlast.out.msg =
            "__init__() missing " \o ToString(Len(Absent)) \o " required argument"
                \o (IF Len(Absent) > 1 THEN "s" ELSE "") \o ": "
                \o ListText(Absent, oxford)

(* C17: a construction that leaves a required field out raises TypeError,  *)
(* sets no field, and its message lists all the missing names in the       *)
(* order of declaration as 'a', as 'a' and 'b', or as 'a', 'b' and 'c'.    *)
C17_MissingListed == MissingRaised(FALSE)

(* C17, amended: as above, but three or more names are listed with a comma *)
(* before "and": 'a', 'b', and 'c'.                                        *)
C17_MissingListedWithComma == MissingRaised(TRUE)

C17_Witness ==
    /\ LastBuilt
    /\ rlast.cls = "Triple"
    /\ rlast.args = <<>>
    /\ rlast.kwargs = <<>>
    /\ rlast.out.msg = "__init__() missing 3 required arguments: 'a', 'b', and 'c'"

(* C18: a construction that supplies a field both by position and by       *)
(* keyword raises TypeError saying the argument got multiple values,       *)
(* before any field is assigned and whether or not required fields are     *)
(* missing.                                                                *)
C18_MultipleValues ==
    (LastBuilt /\ SuppliedTwice # {}) =>
        /\ rlast.out.kind = "TypeError"
        /\ \E a \in SuppliedTwice :
            rlast.out.msg = "__init__() got multiple values for argument " \o Quoted(a)
        /\ rlast.after = Fresh(ClassNamed(rlast.cls))
        /\ rec = NoRecord

C18_Witness ==
    /\ LastBuilt
    /\ rlast.cls = "Triple"
    /\ rlast.args = <<IntV(1)>>
    /\ rlast.kwargs = <<Keyword("a", IntV(1))>>
    /\ Len(Absent) = 2
    /\ rlast.out.msg = "__init__() got multiple values for argument 'a'"

(* A field has a usable default when the class body gives it a value that  *)
(* is an instance of its type; its type admits None when it is Optional.   *)
RequiredByRule(cd, f) ==
    /\ ~(f.has /\ is_instance(f.default, PropertyType(cd, f.attr)))
    /\ ~PropertyType(cd, f.attr).opt

(* C19: a field is required exactly when it has no usable default and its  *)
(* type does not admit None, so a construction without arguments raises    *)
(* TypeError exactly when the class has such a field: it does for          *)
(* 'x = None  # type: str' and does not for 'x = None  # type:             *)
(* Optional[str]' nor for a field of type Optional[T] without a default.   *)
C19_RequiredRule ==
    (LastBuilt /\ rlast.args = <<>> /\ rlast.kwargs = <<>>) =>
        LET cd == ClassNamed(rlast.cls)
        IN  rlast.out.kind = "TypeError" <=>
                \E f \in Names(cd.fields) : RequiredByRule(cd, f)

FieldsEqual(a, b) ==
    /\ DOMAIN a.vals = DOMAIN b.vals
    /\ \A attr \in DOMAIN a.vals :
        /\ FGet(a, attr).kind = "ok"
        /\ FGet(b, attr).kind = "ok"
        /\ PyEq(FGet(a, attr).val, FGet(b, attr).val)

(* C20: two instances of one record class whose fields hold pairwise equal *)
(* values are equal and have equal hashes; an instance is never equal to   *)
(* an instance of another class, whatever their fields hold.               *)
C20_EqualityAndHash ==
    /\ (rlast.op \in {"eq", "hash"} /\ rlast.other.cls = rec.cls
            /\ FieldsEqual(rec, rlast.other)) =>
                rlast.out = Ok(BoolV(TRUE))
    /\ (rlast.op = "eq" /\ rlast.other.cls # rec.cls) =>
                rlast.out = Ok(BoolV(FALSE))

C20_Witness ==
    /\ rlast.op = "eq"
    /\ rec.cls = "Point"
    /\ rlast.other.cls = "Vector"
    /\ rec.vals = rlast.other.vals
    /\ rlast.out = Ok(BoolV(FALSE))

(* ------------------ further claims on validation types ---------------- *)
Inverted(S) == S.start # {} /\ S.stop # {} /\ Val(S.start) > Val(S.stop)

(* The key of the instance made of x, when x can be made an instance and   *)
(* its key is a number, which is when it can be compared with the bounds.  *)
KeyOf(S, x) ==
    LET made == _instantiate(_get_bases(S.type_), S.type_, x)
    IN  IF made.kind # "ok" THEN made
        ELSE ApplyKey(S.keyfunc, made.val)

HasNumberKey(S, x) == KeyOf(S, x).kind = "ok" /\ KeyOf(S, x).val.t \in {"int", "bool"}

(* C26: a type sliced with lower > upper is accepted and no value          *)
(* satisfies it: for every value x construction raises ValueError and      *)
(* isinstance(x, type) is False.                                           *)
C26_InvertedUnsatisfiable ==
    Inverted(cls) =>
        /\ LastNew => last.out.kind = "ValueError"
        /\ LastIs => last.out = Ok(BoolV(FALSE))

(* C26, amended: for lower > upper and every value x whose key is a        *)
(* number, construction raises the "below the minimum" ValueError when     *)
(* key(x) < lower and the "above the maximum" ValueError otherwise; and    *)
(* isinstance(x, type) is False for every x that is not an instance of     *)
(* the base type or whose key is a number, the base type being a class.    *)
C26_InvertedUnsatisfiableForNumberKeys ==
    Inverted(cls) =>
        /\ (LastNew /\ HasNumberKey(cls, last.arg)) =>
                last.out =
                    IF KeyOf(cls, last.arg).val.n < Val(cls.start)
                    THEN Raise("ValueError",
                               BelowMessage(cls, last.arg, KeyOf(cls, last.arg).val))
                    ELSE Raise("ValueError",
                               AboveMessage(cls, last.arg, KeyOf(cls, last.arg).val))
        /\ (LastIs /\ cls.type_ # "Any"
                /\ (~InstanceOf(last.arg, cls.type_) \/ HasNumberKey(cls, last.arg))) =>
                last.out = Ok(BoolV(FALSE))

C26_Witness ==
    /\ LastNew
    /\ cls.spec = "Bounded"
    /\ cls.start = {2}
    /\ cls.stop = {1}
    /\ last.arg = IntV(2)
    /\ last.out.kind = "ValueError"
    /\ last.out.msg = "The value 2 is above the maximum allowed value of 1."

MadeOf(S, x) == _instantiate(_get_bases(S.type_), S.type_, x)

IsFalseError(S, x) ==
    Raise("ValueError",
          _get_fullname(S.keyfunc) \o "(" \o Repr(MadeOf(S, x).val) \o ") is False")

(* C27: the predicate check is made exactly by the types sliced with no    *)
(* lower and no upper bound, whatever the specialization (Valid[...],      *)
(* Bounded[T, :], Bounded[T, None]): such a type raises the ValueError     *)
(* '<key name>(<repr of instance>) is False' iff the key of the instance   *)
(* is falsy, and a type with a bound never raises it, so it accepts a      *)
(* falsy value that is within its bounds.                                  *)
C27_PredicateModeIffNoBounds ==
    (LastNew /\ KeyOf(cls, last.arg).kind = "ok") =>
        IF cls.start = {} /\ cls.stop = {}
        THEN /\ (last.out = IsFalseError(cls, last.arg))
                    <=> ~Truthy(KeyOf(cls, last.arg).val)
             /\ Truthy(KeyOf(cls, last.arg).val) => last.out = MadeOf(cls, last.arg)
        ELSE /\ last.out # IsFalseError(cls, last.arg)
             /\ (/\ HasNumberKey(cls, last.arg)
                 /\ cls.start # {} => Val(cls.start) <= KeyOf(cls, last.arg).val.n
                 /\ cls.stop # {} => KeyOf(cls, last.arg).val.n <= Val(cls.stop))
                    => last.out = MadeOf(cls, last.arg)

C27_Witness ==
    /\ LastNew
    /\ cls.spec = "Bounded"
    /\ last.args = NoArgs
    /\ cls.start = {}
    /\ cls.stop = {}
    /\ cls.type_ = "int"
    /\ cls.keyfunc = "identity"
    /\ last.arg = IntV(0)
    /\ last.out = Raise("ValueError", "typet.validation._identity(0) is False")

(* ------------------- further claims on metaclasses -------------------- *)
SubclassPairs ==
    {p \in SingletonClasses \X SingletonClasses : ParentOf(p[2]) = p[1]}

FirstOf(c) == CHOOSE i \in ObjectsOf(c) : \A j \in ObjectsOf(c) : i <= j

InstantiatedBefore(c, d) ==
    /\ ObjectsOf(c) # {}
    /\ ObjectsOf(d) # {} => FirstOf(c) < FirstOf(d)

SharedDownTheChain(C, D) ==
    /\ InstantiatedBefore(C, D) =>
        /\ ObjectsOf(D) = {}
        /\ returned[D] \subseteq {FirstOf(C)}
    /\ InstantiatedBefore(D, C) =>
        /\ returned[D] = {FirstOf(D)}
        /\ returned[C] \subseteq ObjectsOf(C)
        /\ Cardinality(returned[C]) <= 1

(* C29: for a class C with metaclass Singleton and a subclass D, if C is   *)
(* instantiated before D then every call of D returns the instance of C    *)
(* and D is never instantiated; if D is instantiated first, C and D each   *)
(* keep an instance of their own.                                          *)
C29_SingletonSharedBySubclass ==
    \A p \in SubclassPairs : SharedDownTheChain(p[1], p[2])

(* ----------------------- further claims on records -------------------- *)
(* The fields whose class body gives a default other than None *)
Defaulted(cd) ==
    {a \in Names(Properties(cd)) : FieldOf(cd, a).has /\ FieldOf(cd, a).default # NoneV}

Given(name) == KwNames(rlast.kwargs \o Positionals(ClassNamed(name), rlast.args))

GivenValue(name, a) ==
    LET all == rlast.kwargs \o Positionals(ClassNamed(name), rlast.args)
    IN  (CHOOSE k \in Names(all) : k.attr = a).value

(* C21: a field with a default other than None that is omitted at          *)
(* construction reads back as that default; a value supplied or assigned   *)
(* later is read back from that instance only, and every other instance    *)
(* of the class that omitted the field still reads the default.            *)
C21_DefaultPerInstance ==
    \A cd \in RecordClasses : \A a \in Defaulted(cd) :
        /\ (rlast.op = "new" /\ rlast.cls = cd.name /\ rlast.out.kind = "ok"
                /\ a \notin Given(cd.name))
                => FGet(rec, a) = Ok(FieldOf(cd, a).default)
        /\ (rlast.op = "new" /\ rlast.cls = cd.name /\ rlast.out.kind = "ok"
                /\ a \in Given(cd.name))
                => FGet(rec, a) = cast(PropertyType(cd, a), GivenValue(cd.name, a))
        /\ (rlast.op = "set" /\ rlast.cls = cd.name /\ rlast.attr = a
                /\ rlast.out.kind = "ok")
                => FGet(rec, a) = cast(PropertyType(cd, a), rlast.value)
        /\ \A other \in Built :
                (other.cls = cd.name /\ other.vals[a] = {})
                    => FGet(other, a) = Ok(FieldOf(cd, a).default)

C21_Witness ==
    /\ rlast.op = "set"
    /\ rlast.cls = "XDefault"
    /\ rlast.value = IntV(1)
    /\ FGet(rec, "x") = Ok(IntV(1))
    /\ \E other \in Built :
            other.cls = "XDefault" /\ other.vals["x"] = {} /\ FGet(other, "x") = Ok(IntV(5))

NoneDefault(cd) ==
    {a \in Names(Properties(cd)) : FieldOf(cd, a).has /\ FieldOf(cd, a).default = NoneV}

IsA(value, type_) ==
    \/ IsInstancePlain(value, type_.name).val = BoolV(TRUE)
    \/ type_.opt /\ value = NoneV

Convertible(value, type_) == CallType(type_.name, value).kind = "ok"

(* C22: under native annotations a field whose default is None accepts     *)
(* None on both policies, and still rejects with TypeError a value that    *)
(* is neither a T nor convertible to T (on the strict policy, any value    *)
(* that is not a T); under comment-style annotations the declared type is  *)
(* used as written, so None is accepted only by what that type accepts.    *)
C22_NoneDefaultWidens ==
    \A cd \in RecordClasses : \A a \in NoneDefault(cd) :
        (rlast.op = "set" /\ rlast.cls = cd.name /\ rlast.attr = a) =>
            LET T == FieldOf(cd, a).type
                v == rlast.value
            IN  IF ~cd.comment
                THEN /\ v = NoneV => (rlast.out.kind = "ok" /\ rec.vals[a] = {NoneV})
                     /\ (v # NoneV /\ ~IsA(v, T) /\ (cd.strict \/ ~Convertible(v, T)))
                            => rlast.out.kind = "TypeError"
                     /\ (v # NoneV /\ IsA(v, T))
                            => (rlast.out.kind = "ok" /\ rec.vals[a] = {v})
                ELSE IF cd.strict
                THEN IF IsA(v, T)
                     THEN rlast.out.kind = "ok" /\ rec.vals[a] = {v}
                     ELSE rlast.out.kind = "TypeError"
                ELSE IF IsA(v, T)
                THEN rlast.out.kind = "ok" /\ rec.vals[a] = {v}
                ELSE IF Convertible(v, T)
                THEN rlast.out.kind = "ok" /\ rec.vals[a] = {CallType(T.name, v).val}
                ELSE rlast.out.kind = "TypeError"

C22_Witness ==
    /\ rlast.op = "set"
    /\ rlast.cls = "XStrictNullable"
    /\ rlast.value = NoneV
    /\ rlast.out.kind = "ok"
    /\ rec.vals["x"] = {NoneV}

C22_WitnessRejected ==
    /\ rlast.op = "set"
    /\ rlast.cls = "XNullable"
    /\ rlast.value = StrV("a")
    /\ rlast.out = Raise("TypeError", "Cannot convert 'a' to typing.Optional[int].")

(* C24: in every state reached by constructing a strict record and         *)
(* assigning to it, with success or not, each field that can be read,      *)
(* also one never assigned and read through the default of its class,      *)
(* holds an instance of the type of the field.                             *)
C24_StrictTypeGuarantee ==
    (rec # NoRecord /\ ClassNamed(rec.cls).strict) =>
        \A a \in DOMAIN rec.vals :
            FGet(rec, a).kind = "ok" =>
                IsA(FGet(rec, a).val, PropertyType(Owner(rec.cls, a), a))

(* The guarantee for the fields that were assigned *)
StrictTypeGuaranteeOfAssigned ==
    (rec # NoRecord /\ ClassNamed(rec.cls).strict) =>
        \A a \in DOMAIN rec.vals :
            rec.vals[a] # {} =>
                IsA(Val(rec.vals[a]), PropertyType(Owner(rec.cls, a), a))

(* The arguments of the last construction without the surplus ones: the    *)
(* positionals that stand for a field and the keywords that name one.      *)
FieldArgs == SubSeq(rlast.args, 1, Cardinality(FieldPositions))

FieldKwargs ==
    SelectSeq(rlast.kwargs,
              LAMBDA k : k.attr \in Names(Properties(ClassNamed(rlast.cls))))

HasSurplus == FieldArgs # rlast.args \/ FieldKwargs # rlast.kwargs

FieldsGiven == KwNames(FieldKwargs) \cup KwNames(ByName)

(* C30: positional arguments beyond the number of fields and keywords that *)
(* name no field raise no error and change no field: the construction      *)
(* ends as the one without them does, and when it succeeds the fields      *)
(* assigned are exactly the supplied ones, each holding what its setter    *)
(* stores for the supplied value.                                          *)
C30_SurplusIgnored ==
    LastBuilt =>
        LET cd == ClassNamed(rlast.cls)
            plain == InitCall(cd, Fresh(cd), FieldArgs, FieldKwargs)
        IN  /\ rlast.out = plain.out
            /\ rlast.after = plain.inst
            /\ (rlast.out.kind = "TypeError" /\ HasSurplus) =>
                    \/ SuppliedTwice # {}
                    \/ Len(Absent) > 0
                    \/ \E a \in FieldsGiven :
                            FSet(Fresh(cd), a, GivenValue(cd.name, a)).out = rlast.out
            /\ rlast.out.kind = "ok" =>
                    \A a \in DOMAIN rec.vals :
                        rec.vals[a] =
                            IF a \in FieldsGiven
                            THEN FSet(Fresh(cd), a, GivenValue(cd.name, a)).inst.vals[a]
                            ELSE {}

C30_Witness ==
    /\ LastBuilt
    /\ rlast.cls = "Point"
    /\ rlast.args = <<IntV(1), IntV(1), StrV("a")>>
    /\ rlast.kwargs = <<Keyword("extra", IntV(1))>>
    /\ rlast.out = Ok(NoneV)
    /\ rec = [cls |-> "Point", vals |-> [x |-> {IntV(1)}, y |-> {IntV(1)}]]

(* The classes that derive from another record class *)
Derived == {cd \in RecordClasses : BaseOf(cd.name) \in RecordNames}

OwnGiven(cd) ==
    \A a \in Names(Required(cd)) :
        a \in FieldsGiven /\ FSet(Fresh(cd), a, GivenValue(cd.name, a)).out.kind = "ok"

(* C28: the field list of a class holds only the fields annotated in its   *)
(* own body, in that order: the constructor of a subclass does not require *)
(* the fields of its base, does not assign them, also when a keyword       *)
(* names them, and repr and the comparison tuple show only its own.        *)
C28_OwnFieldsOnly ==
    \A cd \in Derived :
        /\ (LastBuilt /\ rlast.cls = cd.name) =>
            /\ (SuppliedTwice = {} /\ OwnGiven(cd)) => rlast.out.kind = "ok"
            /\ rlast.out.kind = "TypeError" =>
                    \A a \in Names(InheritedProperties(cd.name)) :
                        rlast.out.msg # MissingMessage(<<a>>)
            /\ \A a \in Names(InheritedProperties(cd.name)) : rlast.after.vals[a] = {}
        /\ (rec # NoRecord /\ rec.cls = cd.name) =>
            /\ TypedProperties(rec).kind = "ok" =>
                    TypedProperties(rec).val =
                        [i \in 1..Len(cd.fields) |-> Val(rec.vals[cd.fields[i].attr])]
            /\ (rlast.op = "repr" /\ rlast.out.kind = "ok") =>
                    rlast.out.val =
                        StrV(cd.name \o "(" \o cd.fields[1].attr \o "="
                                \o Repr(Val(rec.vals[cd.fields[1].attr])) \o ")")

C28_Witness ==
    /\ LastBuilt
    /\ rlast.cls = "Point3"
    /\ rlast.args = <<IntV(1)>>
    /\ rlast.kwargs = <<Keyword("x", IntV(1))>>
    /\ rlast.out = Ok(NoneV)
    /\ rec.vals = [z |-> {IntV(1)}, x |-> {}, y |-> {}]

C28_WitnessRepr ==
    /\ rlast.op = "repr"
    /\ rec.cls = "Point3"
    /\ rec.vals["x"] = {IntV(0)}
    /\ rlast.out = Ok(StrV("Point3(z=1)"))

(* The field values of an instance in the order of declaration *)
TupleOf(inst) ==
    [i \in 1..Len(ClassNamed(inst.cls).fields) |->
        FGet(inst, ClassNamed(inst.cls).fields[i].attr).val]

Before(v, w) ==
    IF v.t = "str" /\ w.t = "str" THEN StrLess(v.s, w.s) ELSE v.n < w.n

SameKind(v, w) ==
    \/ v.t \in {"int", "bool"} /\ w.t \in {"int", "bool"}
    \/ v.t = "str" /\ w.t = "str"

(* Two tuples of the same length can be ordered when they are equal or     *)
(* their first unequal items are both numbers or both strings.             *)
Orderable(s, u) ==
    \A i \in 1..Len(s) :
        (~PyEq(s[i], u[i]) /\ \A j \in 1..(i - 1) : PyEq(s[j], u[j]))
            => SameKind(s[i], u[i])

LexLess(s, u) ==
    \E i \in 1..Len(s) :
        /\ \A j \in 1..(i - 1) : PyEq(s[j], u[j])
        /\ ~PyEq(s[i], u[i])
        /\ Before(s[i], u[i])

LastOrder == rlast.op \in OrderOps

Holds(r) == r = Ok(BoolV(TRUE))

IsBool(r) == r.kind = "ok" /\ r.val.t = "bool"

OrderIsLexicographic(always) ==
    LastOrder =>
        LET a == rec
            b == rlast.other
        IN  IF a.cls # b.cls
            THEN /\ ~IsBool(rlast.out)
                 /\ rlast.out.kind = "TypeError"
            ELSE (always \/ Orderable(TupleOf(a), TupleOf(b))) =>
                /\ rlast.out = Compare(rlast.op, a, b)
                /\ IsBool(rlast.out)
                /\ Holds(Compare("<", a, b)) <=> LexLess(TupleOf(a), TupleOf(b))
                /\ Holds(Compare("<=", a, b)) <=> (Holds(Eq(a, b)) \/ Holds(Compare("<", a, b)))
                /\ Holds(Compare(">", a, b)) <=> ~Holds(Compare("<=", a, b))
                /\ Holds(Compare(">=", a, b)) <=> ~Holds(Compare("<", a, b))
                /\ Cardinality({n \in {"<", "=", ">"} :
                                    Holds(IF n = "=" THEN Eq(a, b) ELSE Compare(n, a, b))}) = 1

(* C25: for two instances of the same class, a < b iff the tuple of the    *)
(* field values of a is lexicographically less than that of b, a <= b iff  *)
(* a == b or a < b, a > b iff not a <= b, a >= b iff not a < b, and        *)
(* exactly one of a < b, a == b, a > b holds; for instances of different   *)
(* classes no ordering operator returns a boolean.                         *)
C25_OrderIsLexicographic == OrderIsLexicographic(TRUE)

(* C25, amended: as above for the instances of the same class whose field  *)
(* values can be ordered (equal, or both numbers or both strings where     *)
(* they first differ).                                                     *)
C25_OrderOfOrderable == OrderIsLexicographic(FALSE)

C25_Witness ==
    /\ rlast.op = ">="
    /\ rec = [cls |-> "Point", vals |-> [x |-> {IntV(1)}, y |-> {IntV(0)}]]
    /\ rlast.other = [cls |-> "Point", vals |-> [x |-> {IntV(1)}, y |-> {IntV(1)}]]
    /\ rlast.out = Ok(BoolV(FALSE))

C25_WitnessOtherClass ==
    /\ rlast.op = "<"
    /\ rec.cls = "Point"
    /\ rlast.other.cls = "Vector"
    /\ rlast.out = Raise("TypeError", "'<' not supported between instances of 'Point' and 'Vector'")

(* ---------------------- claims on class statements -------------------- *)
(* The annotated names that cannot become a property *)
NonManageable(body) ==
    {n \in body.annotations :
        \/ StartsWithUnderscore(n)
        \/ IsUpper(n)
        \/ Private(n) \in DOMAIN body.attrs}

AsWritten(body, n) == IF n \in DOMAIN body.attrs THEN {body.attrs[n]} ELSE {}

(* C23: a class statement leaves every annotated attribute that is         *)
(* private, all-uppercase or shadowed by an entry '__name' as the body     *)
(* wrote it: the class has the attribute with the value of the body, or    *)
(* has no such attribute when the body gave none; no property and no       *)
(* value is added.                                                         *)
C23_NonManageableUntouched ==
    \A n \in NonManageable(klass.body) : klass.made[n] = AsWritten(klass.body, n)

(* The same for the names the body gives a value, and no property for any *)
NonManageableWithValueUntouched ==
    \A n \in NonManageable(klass.body) :
        /\ klass.made[n] # {PropertyV(n)}
        /\ n \in DOMAIN klass.body.attrs => klass.made[n] = AsWritten(klass.body, n)

====
